---- MODULE Spec2Model ----
(***************************************************************************)
(* The lambda-evolution demonstration programs as state machines.          *)
(*                                                                         *)
(* A program is a sequence of statements; which statements exist is        *)
(* decided by the preprocessor from the value of __cplusplus               *)
(* (#if __cplusplus >= T ... #else ... #endif).  A run executes the        *)
(* statements of main() in order: it writes to standard output, defines    *)
(* local objects (integers, vectors, closures, bind objects,               *)
(* std::function wrappers), calls them, and returns 0.                     *)
(*                                                                         *)
(* Two runs of the chosen program are executed one after the other         *)
(* (run 1, then run 2), each built with its own -std flag and started in   *)
(* its own environment, so that statements relating two builds or two      *)
(* runs can be checked on one behaviour.                                   *)
(***************************************************************************)
EXTENDS Integers, Sequences, FiniteSets, TLC

VARIABLES prog, std, env, unit, pc, it, out, mem, frames, status, calls, taken,
          arg, ret

vars == <<prog, std, env, unit, pc, it, out, mem, frames, status, calls, taken, arg, ret>>

(***************************************************************************)
(* Language standards: the values of __cplusplus.                          *)
(***************************************************************************)
CPP11 == 201103
CPP14 == 201402
CPP17 == 201703
CPP20 == 202002

\* Largest value of the part of the environment the programs could read
\* (argument count, standard input), were they to read any.
MaxEnv == 1

Runs == {1, 2}
Programs == {"00", "01", "02", "03", "04", "04g"}

\* The standards a program can be built with: the version check is plain
\* C++98 code, every other program needs lambdas.
BuildStds(p) == IF p = "00" THEN {199711, CPP11, CPP14, CPP17, CPP20} ELSE {CPP11, CPP14, CPP17, CPP20}

(***************************************************************************)
(* Statements.  Every statement is a record with the same fields:          *)
(*   k     kind                                                            *)
(*   id    "<program>:<source line>"                                       *)
(*   nm    the variable it defines or assigns                              *)
(*   vk    kind of the object defined / flavour of the statement           *)
(*   tgt   code of a callable (a lambda body, a function)                  *)
(*   e     expressions (initialiser, operands, arguments)                  *)
(*   capv  names captured by value, capr names captured by reference       *)
(*   lay   std::bind parameter layout: k > 0 is placeholder _k, k < 0 is   *)
(*         the bound value number -k                                       *)
(*   mv    variable std::move()d from                                      *)
(*   fn    function called / returned from                                 *)
(*   ty    role of the enclosing section ("can", "cannot", "new", ...)     *)
(*   lvl   standard the enclosing section is about (0: none)               *)
(*   gate  threshold of the enclosing #if (0: not gated), els: #else part  *)
(*   needs oldest standard whose grammar accepts the statement             *)
(***************************************************************************)
Base == [k |-> "text", id |-> "", nm |-> "", vk |-> "", tgt |-> "", e |-> <<>>, capv |-> <<>>, capr |-> <<>>, lay |-> <<>>, mv |-> "", fn |-> "", ty |-> "", lvl |-> 0, gate |-> 0, els |-> FALSE, needs |-> 0]

Text(id) == [Base EXCEPT !.id = id]
Cout(id, e) == [Base EXCEPT !.k = "print", !.id = id, !.e = e]
Open(id) == [Base EXCEPT !.k = "open", !.id = id]
Close(id) == [Base EXCEPT !.k = "close", !.id = id]
Enter(id, f) == [Base EXCEPT !.k = "enter", !.id = id, !.fn = f]
Leave(id, f) == [Base EXCEPT !.k = "leave", !.id = id, !.fn = f]
Return(id) == [Base EXCEPT !.k = "return", !.id = id]
Var(id, nm, vk, e) == [Base EXCEPT !.k = "var", !.id = id, !.nm = nm, !.vk = vk, !.e = <<e>>]
Lambda(id, nm, tgt, capv, capr, init, needs) == [Base EXCEPT !.k = "lambda", !.id = id, !.nm = nm, !.tgt = tgt, !.capv = capv, !.capr = capr, !.e = init, !.needs = needs]
MoveLambda(id, nm, tgt, from, needs) == [Base EXCEPT !.k = "lambda", !.id = id, !.nm = nm, !.tgt = tgt, !.mv = from, !.needs = needs]
Bind(id, nm, tgt, bound, lay, capr) == [Base EXCEPT !.k = "bind", !.id = id, !.nm = nm, !.tgt = tgt, !.e = bound, !.lay = lay, !.capr = capr, !.needs = CPP11]
\* Faulty variant: std::function<int(int)> name;  (default-constructed, empty)
Function_Empty(id, nm, from) == [Base EXCEPT !.k = "function", !.id = id, !.nm = nm, !.vk = "init", !.e = <<<<"none">>>>, !.needs = CPP11]
Function(id, nm, from) == [Base EXCEPT !.k = "function", !.id = id, !.nm = nm, !.vk = "init", !.e = <<from>>, !.needs = CPP11]
Assign(id, nm, from) == [Base EXCEPT !.k = "function", !.id = id, !.nm = nm, !.vk = "assign", !.e = <<from>>, !.needs = CPP11]
PushBack(id, nm, from) == [Base EXCEPT !.k = "function", !.id = id, !.nm = nm, !.vk = "push_back", !.e = <<from>>, !.needs = CPP11]
Algo(id, vk, nm, src, op) == [Base EXCEPT !.k = "algo", !.id = id, !.vk = vk, !.nm = nm, !.e = <<src, op>>, !.needs = CPP11]
SBind(id, names, e) == [Base EXCEPT !.k = "sbind", !.id = id, !.capv = names, !.e = <<e>>, !.needs = CPP17]
Loop(id, over, op) == [Base EXCEPT !.k = "loop", !.id = id, !.e = <<over, op>>, !.needs = CPP11]

\* The same statement with another required standard.
Needs(s, n) == [s EXCEPT !.needs = n]

\* Expressions.
Lit(v) == <<"lit", v>>
Ref(n) == <<"var", n>>
Size(n) == <<"size", n>>
MulC(n, c) == <<"mulc", n, c>>
Macro == <<"macro">>
Call(c, args) == <<"call", Ref(c), args>>
FCall(f, args) == <<"call", <<"tmp", f, <<>>, <<>>, <<>>, <<>>>>, args>>
Acc(src, init, op) == <<"acc", src, init, op>>
Tmp(tgt, capv) == <<"tmp", tgt, capv, <<>>, <<>>, <<>>>>
TmpBind(tgt, bound, lay, capr) == <<"tmp", tgt, <<>>, capr, bound, lay>>
NoOp == <<"none">>
\* for (i = 0; i < fs.size(); ++i) ... fs[i](arg) ...;
CallEach(id, vec, a) == [Base EXCEPT !.k = "loop", !.id = id, !.vk = "calls", !.e = <<Ref(vec), a>>, !.needs = CPP11]
\* a functor constructed in place: Functor(state)
TmpFunctor(tgt, init) == <<"tmp", tgt, <<>>, <<>>, init, <<>>>>
\* section_header("title");
Header(id) == [Text(id) EXCEPT !.fn = "section_header"]
\* expression statement: f(args);
Do(id, e) == [Base EXCEPT !.k = "do", !.id = id, !.e = <<e>>]
\* int (*p)(int, int) = &f;  and  Functor name(state);
FuncPtr(id, nm, tgt) == [Base EXCEPT !.k = "lambda", !.id = id, !.nm = nm, !.tgt = tgt, !.vk = "fptr"]
Functor(id, nm, tgt, init) == [Base EXCEPT !.k = "lambda", !.id = id, !.nm = nm, !.tgt = tgt, !.vk = "functor", !.e = init]
\* std::array<int, N>{}: N zeros; N is a variable or the result of a call
Zeros(n) == <<"zeros", n>>
\* std::minmax_element(v.begin(), v.end()) and *pair.first, *pair.second
MinMax(n) == <<"minmax", n>>
Deref(n, pair, k) == <<"deref", n, pair, k>>

\* A section: its statements marked with the section's role and standard.
Sect(ty, lvl, S) == [i \in 1..Len(S) |-> [S[i] EXCEPT !.ty = ty, !.lvl = lvl]]

\* Faulty variants of the guard: #if __cplusplus == T and #if __cplusplus > T.
Active_Exact(T, cpp) == cpp = T
Active_Strict(T, cpp) == cpp > T
\* Faulty variant of the conditional: the guarded part is always compiled.
Gated_Unconditional(T, cpp, A, B) == [i \in 1..Len(A) |-> [A[i] EXCEPT !.gate = T]]

\* #if __cplusplus >= T  A  #else  B  #endif
Active_NotNested(T, cpp) == IF T = CPP17 THEN cpp = CPP17 ELSE cpp >= T
Active(T, cpp) == cpp >= T
Gated_Both(T, cpp, A, B) == IF Active(T, cpp) THEN [i \in 1..Len(A) |-> [A[i] EXCEPT !.gate = T]] \o [i \in 1..Len(B) |-> [B[i] EXCEPT !.gate = T, !.els = TRUE]] ELSE <<>>
Gated(T, cpp, A, B) == IF Active(T, cpp) THEN [i \in 1..Len(A) |-> [A[i] EXCEPT !.gate = T]] ELSE [i \in 1..Len(B) |-> [B[i] EXCEPT !.gate = T, !.els = TRUE]]

\* A line of standard output: the statement that wrote it and the values
\* it inserted into the text.
Line(id, v) == [id |-> id, v |-> v]

(***************************************************************************)
(* Library algorithms, as the programs use them.                           *)
(***************************************************************************)
\* std::accumulate(first, last, init, op)
Accumulate(vec, init, Op(_, _)) == LET f[i \in 0..Len(vec)] == IF i = 0 THEN init ELSE Op(f[i - 1], vec[i]) IN f[Len(vec)]
\* std::copy_if(first, last, std::back_inserter(dest), pred)
CopyIf(vec, dest, Pred(_)) == dest \o SelectSeq(vec, Pred)
\* std::transform(first, last, std::back_inserter(dest), op)
Transform(vec, dest, Op(_)) == dest \o [i \in 1..Len(vec) |-> Op(vec[i])]
\* std::transform(first, last, dest.begin(), op): overwrites dest in place
TransformAt(vec, dest, Op(_)) == [i \in 1..Len(dest) |-> IF i <= Len(vec) THEN Op(vec[i]) ELSE dest[i]]

(***************************************************************************)
(* 03_lambda_evolution_demo.cpp: the lambdas.                              *)
(***************************************************************************)
is_positive_11(x) == x > 0
square_11(x) == x * x
add_11(a, b) == a + b
abs_value_11(x) == IF x > 0 THEN x ELSE -x
abs_value2_fallthrough(x) == x
abs_value2(x) == IF x > 0 THEN x ELSE -x
is_positive_14(x) == x > 0
square_14(x) == x * x
abs_value_14(x) == IF x > 0 THEN x ELSE -x
\* [is_positive, square](auto sum, auto value)
pipeline_14(sum, value) == IF is_positive_14(value) THEN sum + square_14(value) ELSE sum
\* [factor = 2](const auto& vec), with the inner [factor](auto acc, auto val)
transform_and_sum(factor, vec) == Accumulate(vec, 0, LAMBDA acc, val: acc + (IF val > 0 THEN val * factor ELSE 0))
\* Faulty variant: a process_value that squares every value.
process_value_all(value) == value * value
process_value(value) == IF value > 0 THEN value * value ELSE 0
\* [process_value](auto sum, auto value) constexpr
pipeline_17(sum, value) == sum + process_value(value)
\* for (auto v : vec) { if (v > 0) ++pos_count; else if (v < 0) ++neg_count; }
get_stats_zero_negative(vec) == LET f[i \in 0..Len(vec)] == IF i = 0 THEN <<0, 0>> ELSE IF vec[i] > 0 THEN <<f[i - 1][1] + 1, f[i - 1][2]>> ELSE <<f[i - 1][1], f[i - 1][2] + 1>> IN f[Len(vec)]
get_stats(vec) == LET f[i \in 0..Len(vec)] == IF i = 0 THEN <<0, 0>> ELSE IF vec[i] > 0 THEN <<f[i - 1][1] + 1, f[i - 1][2]>> ELSE IF vec[i] < 0 THEN <<f[i - 1][1], f[i - 1][2] + 1>> ELSE f[i - 1] IN f[Len(vec)]
safe_processor(vec, predicate(_), transformer(_)) == Accumulate(vec, 0, LAMBDA result, item: IF predicate(item) THEN result + transformer(item) ELSE result)
is_positive_20(x) == x > 0
square_20(x) == x * x

(***************************************************************************)
(* 01_simple_lambda_comparison.cpp: the lambdas.                           *)
(***************************************************************************)
doubler_11(x) == x * 2
\* [multiplier](int x) -> int
tripler(multiplier, x) == x * multiplier
doubler_14(x) == x * 2
\* [multiplier = 4](auto x)
processor(multiplier, x) == x * multiplier
\* Faulty variant: a constexpr doubler that is not the doubling of the others.
doubler_17_square(x) == x * x
doubler_17(x) == x * 2
safe_doubler(x) == x * 2

(***************************************************************************)
(* 02_lambda_feature_comparison.cpp: the lambdas.  A double is held as its *)
(* hundredths (3.14 is 314), the product of two doubles as its             *)
(* ten-thousandths.                                                        *)
(***************************************************************************)
\* lambda1 [multiplier], lambda2 [&multiplier], lambda3 [=], lambda4 [&]
times_multiplier(multiplier, x) == x * multiplier
lambda5_11(x) == IF x > 0 THEN 314 ELSE 271
lambda6_11(x) == x * 2
\* [y = multiplier * 2](int x)
lambda1_14(y, x) == x * y
\* [doubled = multiplier * 2, tripled = multiplier * 3](int x)
lambda2_14(doubled, tripled, x) == x * doubled + tripled
\* [v = std::move(data_copy)](int x) { return v[0] * x; }
lambda3_14(v, x) == v[1] * x
lambda4_14(x) == x * 2
lambda5_14(x, y) == x + y
lambda6_14(flag) == IF flag THEN 314 ELSE 314
\* [](auto container, auto init, auto op), called with op = [](auto a, auto b) { return a + b; }
lambda7_14(container, init) == Accumulate(container, init, LAMBDA a, b: a + b)
generic_square(x) == x * x
\* [y = 42](auto x)
plus_y(y, x) == x + y
square_if_even(n) == IF n % 2 = 0 THEN n * n ELSE n
get_array_size(base) == base * base
\* [](auto sum, auto val) constexpr
sum_of_squares_op(sum, val) == sum + val * val
\* std::minmax_element: the positions of the first smallest and the last largest element
MinMaxElement(vec) == <<CHOOSE i \in 1..Len(vec) : (\A j \in 1..Len(vec) : vec[i] <= vec[j]) /\ (\A j \in 1..(i - 1) : vec[j] > vec[i]), CHOOSE i \in 1..Len(vec) : (\A j \in 1..Len(vec) : vec[j] <= vec[i]) /\ (\A j \in (i + 1)..Len(vec) : vec[j] < vec[i])>>
constexpr_doubler(x) == x * 2
template_square(x) == x * x
template_plus(x, y) == x + y
lambda3_20(x) == x * 2
lambda4_20(x) == x + 1
\* called with operation = [](auto x) { return x * x; }
\* Faulty variant: a result that starts as a copy of the input.
generic_container_op_append(c) == Transform(c, c, LAMBDA x: x * x)
generic_container_op(c) == Transform(c, <<>>, LAMBDA x: x * x)
make_tuple_lambda(args) == args

\* The string literals of the programs; a string value is its place here.
StrTab == <<"event1", "event2", "event3", "lvalue_string", "rvalue_string", "hello">>
Str(t) == CHOOSE i \in 1..Len(StrTab) : StrTab[i] = t

(***************************************************************************)
(* 04_lambda_replace_bind.cpp: the functions, the functor and the lambdas. *)
(***************************************************************************)
print_sum(a, b) == <<Line("04:29", <<a, b, a + b>>)>>
multiply_and_print(a, b, c) == <<Line("04:33", <<a, b, c, a * b * c>>)>>
Foo_bar(x) == <<Line("04:37", <<x>>)>>
Foo_process(data) == <<Line("04g:508", <<data>>)>>
add(a, b) == a + b
subtract(a, b) == a - b
\* struct Multiplier { int factor; int operator()(int x) const; }
Multiplier(factor, x) == x * factor
lambda_cpp11(x) == print_sum(2, x)
lambda_04(c) == multiply_and_print(2, 3, c)
\* [&foo](int x){ foo.bar(x); }
foo_bar_lambda(x) == Foo_bar(x)
lambda_subtract(x) == subtract(20, x)
\* Faulty variant: a lambda that does not swap its arguments.
lambda_reversed_not(x, y) == print_sum(x, y)
lambda_reversed(x, y) == print_sum(y, x)
lambda_generic(x) == add(10, x)
\* [v = std::move(data)](int multiplier)
lambda_with_move(v, multiplier) == Accumulate(v, 0, LAMBDA sum, x: sum + x * multiplier)
lambda_obj(x) == add(10, x)
\* [&foo](auto&& data) { foo.process(std::forward<decltype(data)>(data)); }
\* Faulty variant: a wrapper that hands its argument to Foo::process twice.
perfect_forward_twice(data) == Foo_process(data) \o Foo_process(data)
perfect_forward_lambda(data) == Foo_process(data)
lambda_multiply(x) == x * 2
direct_lambda(x) == x * 2


(***************************************************************************)
(* Calling a callable: the code named tgt, run with the values it captured *)
(* (cap) on the arguments a.  Values are sequences of integers: an int is  *)
(* <<n>>, a vector its elements, a bool 0 or 1, a double its hundredths,   *)
(* a string its number in StrTab (0: the empty string).                    *)
(***************************************************************************)
B(b) == IF b THEN 1 ELSE 0

Apply03(tgt, cap, a) ==
    CASE tgt = "03:25" -> <<B(is_positive_11(a[1]))>>
      [] tgt = "03:26" -> <<square_11(a[1])>>
      [] tgt = "03:27" -> <<add_11(a[1], a[2])>>
      [] tgt = "03:30" -> <<abs_value_11(a[1])>>
      [] tgt = "03:32" -> <<abs_value2(a[1])>>
      [] tgt = "03:81" -> <<B(is_positive_14(a[1]))>>
      [] tgt = "03:82" -> <<square_14(a[1])>>
      [] tgt = "03:85" -> <<abs_value_14(a[1])>>
      [] tgt = "03:92" -> <<pipeline_14(a[1], a[2])>>
      [] tgt = "03:97" -> <<transform_and_sum(cap[1], a)>>
      [] tgt = "03:139" -> <<process_value(a[1])>>
      [] tgt = "03:144" -> get_stats(a)
      [] tgt = "03:155" -> <<pipeline_17(a[1], a[2])>>
      [] tgt = "03:192" -> <<safe_processor(a, is_positive_20, square_20)>>
      [] tgt = "03:205" -> <<B(is_positive_20(a[1]))>>
      [] tgt = "03:208" -> <<square_20(a[1])>>
      [] OTHER -> <<>>

\* The conditions (if, ?:) a call evaluates at run time, each with the way it went.
PerElem(a, F(_)) == UNION {F(a[i]) : i \in 1..Len(a)}
Outcomes03(tgt, cap, a) ==
    CASE tgt = "03:30" -> {<<"03:30", a[1] > 0>>}
      [] tgt = "03:32" -> {<<"03:33", a[1] > 0>>}
      [] tgt = "03:85" -> {<<"03:86", a[1] > 0>>}
      [] tgt = "03:92" -> {<<"03:93", a[2] > 0>>}
      [] tgt = "03:97" -> PerElem(a, LAMBDA x: {<<"03:100", x > 0>>})
      [] tgt = "03:139" -> {<<"03:140", a[1] > 0>>}
      [] tgt = "03:144" -> PerElem(a, LAMBDA x: {<<"03:147", x > 0>>} \cup (IF x > 0 THEN {} ELSE {<<"03:148", x < 0>>}))
      [] tgt = "03:155" -> {<<"03:140", a[2] > 0>>}
      [] tgt = "03:192" -> PerElem(a, LAMBDA x: {<<"03:197", x > 0>>})
      [] OTHER -> {}

Apply01(tgt, cap, a) ==
    CASE tgt = "01:344" -> <<doubler_11(a[1])>>
      [] tgt = "01:350" -> <<tripler(cap[1], a[1])>>
      [] tgt = "01:390" -> <<doubler_14(a[1])>>
      [] tgt = "01:395" -> <<processor(cap[1], a[1])>>
      [] tgt = "01:441" -> <<doubler_17(a[1])>>
      [] tgt = "01:476" -> <<safe_doubler(a[1])>>
      [] OTHER -> <<>>

Apply02(tgt, cap, a) ==
    CASE tgt = "02:2185" -> <<times_multiplier(cap[1], a[1])>>
      [] tgt = "02:2191" -> <<lambda5_11(a[1])>>
      [] tgt = "02:2197" -> <<lambda6_11(a[1])>>
      [] tgt = "02:2224" -> <<lambda1_14(cap[1], a[1])>>
      [] tgt = "02:2225" -> <<lambda2_14(cap[1], cap[2], a[1])>>
      [] tgt = "02:2231" -> <<lambda3_14(cap, a[1])>>
      [] tgt = "02:2234" -> <<lambda4_14(a[1])>>
      [] tgt = "02:2235" -> <<lambda5_14(a[1], a[2])>>
      [] tgt = "02:2238" -> <<lambda6_14(a[1] = 1)>>
      [] tgt = "02:2244" -> <<lambda7_14(SubSeq(a, 1, Len(a) - 1), a[Len(a)])>>
      [] tgt = "02:2273" -> <<generic_square(a[1])>>
      [] tgt = "02:2274" -> <<plus_y(cap[1], a[1])>>
      [] tgt = "02:2296" -> <<generic_square(a[1])>>
      [] tgt = "02:2300" -> <<square_if_even(a[1])>>
      [] tgt = "02:2308" -> <<get_array_size(a[1])>>
      [] tgt = "02:2319" -> <<sum_of_squares_op(a[1], a[2])>>
      [] tgt = "02:2343" -> <<constexpr_doubler(a[1])>>
      [] tgt = "02:2344" -> <<plus_y(cap[1], a[1])>>
      [] tgt = "02:2369" -> <<template_square(a[1])>>
      [] tgt = "02:2370" -> <<template_plus(a[1], a[2])>>
      [] tgt = "02:2373" -> <<lambda3_20(a[1])>>
      [] tgt = "02:2378" -> <<lambda4_20(a[1])>>
      [] tgt = "02:2381" -> generic_container_op(a)
      [] tgt = "02:2393" -> make_tuple_lambda(a)
      [] OTHER -> <<>>

Outcomes02(tgt, cap, a) ==
    CASE tgt = "02:2191" -> {<<"02:2192", a[1] > 0>>}
      [] tgt = "02:2238" -> {<<"02:2239", a[1] = 1>>}
      [] tgt = "02:2300" -> {<<"02:2301", a[1] % 2 = 0>>}
      [] OTHER -> {}

Apply04(tgt, cap, a) ==
    CASE tgt = "04:41" -> <<add(a[1], a[2])>>
      [] tgt = "04:42" -> <<subtract(a[1], a[2])>>
      [] tgt = "04:127" -> <<lambda_subtract(a[1])>>
      [] tgt = "04:167" -> <<lambda_generic(a[1])>>
      [] tgt = "04:184" -> <<lambda_with_move(cap, a[1])>>
      [] tgt = "04:265" -> <<lambda_obj(a[1])>>
      [] tgt = "04g:502" -> <<Multiplier(cap[1], a[1])>>
      [] tgt = "04g:862" -> <<lambda_multiply(a[1])>>
      [] tgt = "04g:912" -> <<direct_lambda(a[1])>>
      [] OTHER -> <<>>

\* What a call writes to standard output.
Says04(tgt, cap, a) ==
    CASE tgt = "04:28" -> print_sum(a[1], a[2])
      [] tgt = "04:32" -> multiply_and_print(a[1], a[2], a[3])
      [] tgt = "04:37" -> Foo_bar(a[1])
      [] tgt = "04:81" -> lambda_cpp11(a[1])
      [] tgt = "04:98" -> lambda_04(a[1])
      [] tgt = "04:115" -> foo_bar_lambda(a[1])
      [] tgt = "04:151" -> lambda_reversed(a[1], a[2])
      [] tgt = "04g:507" -> Foo_process(a[1])
      [] tgt = "04g:747" -> perfect_forward_lambda(a[1])
      [] OTHER -> <<>>

Family(tgt) == SubSeq(tgt, 1, 2)
Apply(tgt, cap, a) ==
    CASE Family(tgt) = "01" -> Apply01(tgt, cap, a)
      [] Family(tgt) = "02" -> Apply02(tgt, cap, a)
      [] Family(tgt) = "03" -> Apply03(tgt, cap, a)
      [] Family(tgt) = "04" -> Apply04(tgt, cap, a)
      [] OTHER -> <<>>
\* What the called code itself writes to standard output.
Says(tgt, cap, a) == IF Family(tgt) = "04" THEN Says04(tgt, cap, a) ELSE <<>>
Outcomes(tgt, cap, a) ==
    CASE Family(tgt) = "02" -> Outcomes02(tgt, cap, a)
      [] Family(tgt) = "03" -> Outcomes03(tgt, cap, a)
      [] OTHER -> {}
\* Whether the called code reads outside an object (v[0] of an empty vector).
Faults(tgt, cap, a) == tgt = "02:2231" /\ cap = <<>>

(***************************************************************************)
(* 00_cpp_version_check.cpp                                                *)
(***************************************************************************)
main_00(cpp) ==
    Sect("value", 0, <<Cout("00:15", <<Macro>>)>>)
    \o Gated(CPP11, cpp, Sect("yes", CPP11, <<Text("00:18")>>), Sect("no", CPP11, <<Text("00:20")>>))
    \o Gated(CPP14, cpp, Sect("yes", CPP14, <<Text("00:24")>>), Sect("no", CPP14, <<Text("00:26")>>))
    \o Gated(CPP17, cpp, Sect("yes", CPP17, <<Text("00:30")>>), Sect("no", CPP17, <<Text("00:32")>>))
    \o Gated(CPP20, cpp, Sect("yes", CPP20, <<Text("00:36")>>), Sect("no", CPP20, <<Text("00:38")>>))
    \o <<Return("00:41")>>

(***************************************************************************)
(* 03_lambda_evolution_demo.cpp                                            *)
(***************************************************************************)
data_03 == <<1, -2, 3, -4, 5, -6, 7, -8, 9, -10>>

S03_intro == Sect("intro", 0, <<
    Var("03:14", "data", "vec", Lit(data_03)),
    Text("03:16")>>)

S03_c11_can == Sect("can", CPP11, <<
    Text("03:21"),
    Open("03:23"),
    Lambda("03:25", "is_positive", "03:25", <<>>, <<>>, <<>>, CPP11),
    Lambda("03:26", "square", "03:26", <<>>, <<>>, <<>>, CPP11),
    Lambda("03:27", "add", "03:27", <<>>, <<>>, <<>>, CPP11),
    Lambda("03:30", "abs_value", "03:30", <<>>, <<>>, <<>>, CPP11),
    Lambda("03:32", "abs_value2", "03:32", <<>>, <<>>, <<>>, CPP11),
    Var("03:38", "positives", "vec", Lit(<<>>)),
    Algo("03:39", "copy_if", "positives", Ref("data"), Ref("is_positive")),
    Var("03:41", "squared", "vec", Lit(<<>>)),
    Algo("03:42", "transform", "squared", Ref("positives"), Ref("square")),
    Var("03:44", "sum", "int", Acc(Ref("squared"), Lit(<<0>>), Ref("add"))),
    Text("03:46"),
    Loop("03:48", Ref("positives"), NoOp),
    Text("03:49"),
    Loop("03:50", Ref("squared"), NoOp),
    Cout("03:51", <<Ref("sum")>>),
    Cout("03:52", <<Call("abs_value", <<Lit(<<-5>>)>>), Call("abs_value2", <<Lit(<<-5>>)>>)>>),
    Text("03:53"),
    Close("03:57")>>)

S03_c11_cannot == Sect("cannot", CPP11, <<
    Text("03:59"),
    Open("03:60"),
    Text("03:61"),
    Close("03:72"),
    Text("03:73")>>)

S03_c14_new == Sect("new", CPP14, <<
    Text("03:77"),
    Open("03:79"),
    Lambda("03:81", "is_positive", "03:81", <<>>, <<>>, <<>>, CPP14),
    Lambda("03:82", "square", "03:82", <<>>, <<>>, <<>>, CPP14),
    Lambda("03:85", "abs_value", "03:85", <<>>, <<>>, <<>>, CPP14),
    Needs(Var("03:91", "result", "int", Acc(Ref("data"), Lit(<<0>>), Tmp("03:92", <<"is_positive", "square">>))), CPP14),
    Lambda("03:97", "transform_and_sum", "03:97", <<>>, <<>>, <<Lit(<<2>>)>>, CPP14),
    Var("03:104", "transformed_result", "int", Call("transform_and_sum", <<Ref("data")>>)),
    Text("03:106"),
    Cout("03:107", <<Ref("result")>>),
    Cout("03:108", <<Ref("transformed_result")>>),
    Cout("03:109", <<Call("abs_value", <<Lit(<<-7>>)>>)>>),
    Text("03:110"),
    Close("03:114")>>)

S03_c14_cannot == Sect("cannot", CPP14, <<
    Text("03:116"),
    Open("03:117"),
    Text("03:118"),
    Close("03:126"),
    Text("03:127")>>)

S03_c14_na == Sect("na", CPP14, <<Text("03:129")>>)

S03_c17_new == Sect("new", CPP17, <<
    Text("03:135"),
    Open("03:137"),
    Lambda("03:139", "process_value", "03:139", <<>>, <<>>, <<>>, CPP17),
    Lambda("03:144", "get_stats", "03:144", <<>>, <<>>, <<>>, CPP14),
    SBind("03:152", <<"positives", "negatives">>, Call("get_stats", <<Ref("data")>>)),
    Needs(Var("03:154", "result", "int", Acc(Ref("data"), Lit(<<0>>), Tmp("03:155", <<"process_value">>))), CPP17),
    Needs(Var("03:160", "compile_time_result", "constexpr", Call("process_value", <<Lit(<<5>>)>>)), CPP17),
    Text("03:162"),
    Cout("03:163", <<Ref("result")>>),
    Cout("03:164", <<Ref("compile_time_result")>>),
    Cout("03:165", <<Ref("positives"), Ref("negatives")>>),
    Text("03:166"),
    Close("03:170")>>)

S03_c17_cannot == Sect("cannot", CPP17, <<
    Text("03:172"),
    Open("03:173"),
    Text("03:174"),
    Close("03:179"),
    Text("03:180")>>)

S03_c17_na == Sect("na", CPP17, <<Text("03:182")>>)

S03_c20_new == Sect("new", CPP20, <<
    Text("03:188"),
    Open("03:190"),
    Lambda("03:192", "safe_processor", "03:192", <<>>, <<>>, <<>>, CPP20),
    Lambda("03:205", "is_positive", "03:205", <<>>, <<>>, <<>>, CPP20),
    Lambda("03:208", "square", "03:208", <<>>, <<>>, <<>>, CPP20),
    Var("03:212", "result", "int", Call("safe_processor", <<Ref("data"), Ref("is_positive"), Ref("square")>>)),
    Text("03:214"),
    Cout("03:215", <<Ref("result")>>),
    Text("03:216"),
    Close("03:222"),
    Text("03:223")>>)

S03_c20_na == Sect("na", CPP20, <<Text("03:225")>>)

demonstrate_practical_evolution_17_first(cpp) ==
    S03_intro \o S03_c11_can \o S03_c11_cannot
    \o Gated(CPP17, cpp, S03_c17_new \o S03_c17_cannot, S03_c17_na)
    \o Gated(CPP14, cpp, S03_c14_new \o S03_c14_cannot, S03_c14_na)
    \o Gated(CPP20, cpp, S03_c20_new, S03_c20_na)

demonstrate_practical_evolution(cpp) ==
    S03_intro \o S03_c11_can \o S03_c11_cannot
    \o Gated(CPP14, cpp, S03_c14_new \o S03_c14_cannot, S03_c14_na)
    \o Gated(CPP17, cpp, S03_c17_new \o S03_c17_cannot, S03_c17_na)
    \o Gated(CPP20, cpp, S03_c20_new, S03_c20_na)

summary_03_ungated(cpp) ==
    Sect("summary", CPP11, <<Text("03:236")>>)
    \o Sect("summary", CPP14, <<Text("03:247")>>)
    \o Sect("summary", CPP17, <<Text("03:257")>>)
    \o Sect("summary", CPP20, <<Text("03:266")>>)

summary_03(cpp) ==
    Sect("summary", CPP11, <<Text("03:236")>>)
    \o Gated(CPP14, cpp, Sect("summary", CPP14, <<Text("03:247")>>), <<>>)
    \o Gated(CPP17, cpp, Sect("summary", CPP17, <<Text("03:257")>>), <<>>)
    \o Gated(CPP20, cpp, Sect("summary", CPP20, <<Text("03:266")>>), <<>>)

main_03(cpp) ==
    Sect("banner", 0, <<Text("03:231"), Enter("03:234", "demonstrate_practical_evolution")>>)
    \o demonstrate_practical_evolution(cpp)
    \o <<Leave("03:228", "demonstrate_practical_evolution")>>
    \o summary_03(cpp)
    \o Sect("conclusion", 0, <<Text("03:274")>>)
    \o <<Return("03:276")>>

(***************************************************************************)
(* 01_simple_lambda_comparison.cpp                                         *)
(***************************************************************************)
S01_intro == Sect("intro", 0, <<
    Var("01:333", "numbers", "vec", Lit(<<1, 2, 3, 4, 5>>)),
    Text("01:335")>>)

S01_c11_can == Sect("can", CPP11, <<
    Text("01:340"),
    Open("01:342"),
    Lambda("01:344", "doubler", "01:344", <<>>, <<>>, <<>>, CPP11),
    Var("01:349", "multiplier", "int", Lit(<<3>>)),
    Lambda("01:350", "tripler", "01:350", <<"multiplier">>, <<>>, <<>>, CPP11),
    Text("01:355"),
    Loop("01:356", Ref("numbers"), Ref("doubler")),
    Text("01:359"),
    Loop("01:360", Ref("numbers"), Ref("tripler")),
    Text("01:363"),
    Close("01:366")>>)

\* Faulty variant: a CANNOT block that defines and calls a lambda.
S01_c11_cannot_live == Sect("cannot", CPP11, <<
    Text("01:368"),
    Open("01:369"),
    Lambda("01:371", "lambda", "01:344", <<>>, <<>>, <<>>, CPP14),
    Cout("01:372", <<Call("lambda", <<Lit(<<5>>)>>)>>),
    Close("01:381"),
    Text("01:382")>>)

S01_c11_cannot == Sect("cannot", CPP11, <<
    Text("01:368"),
    Open("01:369"),
    Text("01:370"),
    Close("01:381"),
    Text("01:382")>>)

S01_c14_new == Sect("new", CPP14, <<
    Text("01:386"),
    Open("01:388"),
    Lambda("01:390", "doubler", "01:390", <<>>, <<>>, <<>>, CPP14),
    Lambda("01:395", "processor", "01:395", <<>>, <<>>, <<Lit(<<4>>)>>, CPP14),
    Text("01:400"),
    Loop("01:401", Ref("numbers"), Ref("doubler")),
    Text("01:404"),
    Loop("01:405", Lit(<<150, 250, 350>>), Ref("doubler")),
    Text("01:408"),
    Loop("01:409", Ref("numbers"), Ref("processor")),
    Text("01:412"),
    Close("01:416")>>)

S01_c14_cannot == Sect("cannot", CPP14, <<
    Text("01:418"),
    Open("01:419"),
    Text("01:420"),
    Close("01:428"),
    Text("01:429")>>)

S01_c14_na == Sect("na", CPP14, <<Text("01:431")>>)

S01_c17_new == Sect("new", CPP17, <<
    Text("01:437"),
    Open("01:439"),
    Lambda("01:441", "doubler", "01:441", <<>>, <<>>, <<>>, CPP17),
    Needs(Var("01:446", "compile_time_result", "constexpr", Call("doubler", <<Lit(<<5>>)>>)), CPP17),
    Text("01:448"),
    Loop("01:449", Ref("numbers"), Ref("doubler")),
    Cout("01:452", <<Ref("compile_time_result")>>),
    Text("01:454"),
    Close("01:456")>>)

S01_c17_cannot == Sect("cannot", CPP17, <<
    Text("01:458"),
    Open("01:459"),
    Text("01:460"),
    Close("01:465"),
    Text("01:466")>>)

S01_c20_new == Sect("new", CPP20, <<
    Text("01:472"),
    Open("01:474"),
    Lambda("01:476", "safe_doubler", "01:476", <<>>, <<>>, <<>>, CPP20),
    Text("01:480"),
    Loop("01:481", Ref("numbers"), Ref("safe_doubler")),
    Text("01:484"),
    Close("01:491"),
    Text("01:492")>>)

summary_01(cpp) ==
    Sect("summary", CPP11, <<Text("01:496")>>)
    \o Gated(CPP14, cpp, Sect("summary", CPP14, <<Text("01:505")>>), <<>>)
    \o Gated(CPP17, cpp, Sect("summary", CPP17, <<Text("01:514")>>), <<>>)
    \o Gated(CPP20, cpp, Sect("summary", CPP20, <<Text("01:522")>>), <<>>)

demonstrate_lambda_evolution(cpp) ==
    S01_intro \o S01_c11_can \o S01_c11_cannot
    \o Gated(CPP14, cpp, S01_c14_new \o S01_c14_cannot, S01_c14_na)
    \o Gated(CPP17, cpp, S01_c17_new \o S01_c17_cannot, <<>>)
    \o Gated(CPP20, cpp, S01_c20_new, <<>>)
    \o summary_01(cpp)

main_01(cpp) ==
    Sect("banner", 0, <<Text("01:531"), Enter("01:534", "demonstrate_lambda_evolution")>>)
    \o demonstrate_lambda_evolution(cpp)
    \o <<Leave("01:528", "demonstrate_lambda_evolution")>>
    \o <<Return("01:536")>>

(***************************************************************************)
(* 02_lambda_feature_comparison.cpp                                        *)
(***************************************************************************)
data_02 == <<1, 2, 3, 4, 5>>

S02a_intro == Sect("intro", 0, <<
    Text("02:2177"),
    Var("02:2179", "data", "vec", Lit(data_02)),
    Var("02:2180", "multiplier", "int", Lit(<<2>>))>>)

S02a_c11_can == Sect("can", CPP11, <<
    Text("02:2182"),
    Open("02:2183"),
    Lambda("02:2185", "lambda1", "02:2185", <<"multiplier">>, <<>>, <<>>, CPP11),
    Lambda("02:2186", "lambda2", "02:2185", <<>>, <<"multiplier">>, <<>>, CPP11),
    Lambda("02:2187", "lambda3", "02:2185", <<"multiplier">>, <<>>, <<>>, CPP11),
    Lambda("02:2188", "lambda4", "02:2185", <<>>, <<"multiplier">>, <<>>, CPP11),
    Lambda("02:2191", "lambda5", "02:2191", <<>>, <<>>, <<>>, CPP11),
    Lambda("02:2197", "lambda6", "02:2197", <<>>, <<>>, <<>>, CPP11),
    Cout("02:2199", <<Call("lambda1", <<Lit(<<5>>)>>)>>),
    Cout("02:2200", <<Call("lambda5", <<Lit(<<1>>)>>)>>),
    Close("02:2203")>>)

S02a_c11_cannot == Sect("cannot", CPP11, <<
    Text("02:2205"),
    Open("02:2206"),
    Text("02:2207"),
    Close("02:2218")>>)

S02a_c14_new == Sect("new", CPP14, <<
    Text("02:2221"),
    Open("02:2222"),
    Lambda("02:2224", "lambda1", "02:2224", <<>>, <<>>, <<MulC("multiplier", 2)>>, CPP14),
    Lambda("02:2225", "lambda2", "02:2225", <<>>, <<>>, <<MulC("multiplier", 2), MulC("multiplier", 3)>>, CPP14),
    Var("02:2230", "data_copy", "vec", Ref("data")),
    MoveLambda("02:2231", "lambda3", "02:2231", "data_copy", CPP14),
    Lambda("02:2234", "lambda4", "02:2234", <<>>, <<>>, <<>>, CPP14),
    Lambda("02:2235", "lambda5", "02:2235", <<>>, <<>>, <<>>, CPP14),
    Lambda("02:2238", "lambda6", "02:2238", <<>>, <<>>, <<>>, CPP14),
    Lambda("02:2244", "lambda7", "02:2244", <<>>, <<>>, <<>>, CPP14),
    Cout("02:2248", <<Call("lambda1", <<Lit(<<5>>)>>)>>),
    Cout("02:2249", <<Call("lambda3", <<Lit(<<3>>)>>)>>),
    Cout("02:2250", <<Call("lambda4", <<Lit(<<5>>)>>)>>),
    Cout("02:2251", <<Call("lambda4", <<Lit(<<314>>)>>)>>),
    Cout("02:2252", <<Call("lambda6", <<Lit(<<1>>)>>)>>),
    Needs(Var("02:2254", "sum_result", "int", Call("lambda7", <<Ref("data"), Lit(<<0>>)>>)), CPP14),
    Cout("02:2255", <<Ref("sum_result")>>),
    Close("02:2258")>>)

S02a_c14_na == Sect("na", CPP14, <<Text("02:2260")>>)

demonstrate_cpp11_vs_cpp14_comparison(cpp) ==
    S02a_intro \o S02a_c11_can \o S02a_c11_cannot
    \o Gated(CPP14, cpp, S02a_c14_new, S02a_c14_na)

S02b_intro == Sect("intro", 0, <<
    Text("02:2265"),
    Var("02:2267", "data", "vec", Lit(data_02)),
    Text("02:2269"),
    Open("02:2270")>>)

S02b_c14_can == Sect("can", CPP14, <<
    Lambda("02:2273", "lambda1", "02:2273", <<>>, <<>>, <<>>, CPP14),
    Lambda("02:2274", "lambda2", "02:2274", <<>>, <<>>, <<Lit(<<42>>)>>, CPP14),
    Cout("02:2276", <<Call("lambda1", <<Lit(<<5>>)>>)>>),
    Cout("02:2277", <<Call("lambda2", <<Lit(<<3>>)>>)>>)>>)

S02b_c14_na == Sect("na", CPP14, <<Text("02:2279")>>)

S02b_c14_cannot == Sect("cannot", CPP14, <<
    Text("02:2283"),
    Open("02:2284"),
    Text("02:2285"),
    Close("02:2290")>>)

S02b_c17_new == Sect("new", CPP17, <<
    Text("02:2293"),
    Open("02:2294"),
    Lambda("02:2296", "lambda1", "02:2296", <<>>, <<>>, <<>>, CPP17),
    Needs(Var("02:2297", "compile_time_result", "constexpr", Call("lambda1", <<Lit(<<5>>)>>)), CPP17),
    Lambda("02:2300", "square_if_even", "02:2300", <<>>, <<>>, <<>>, CPP17),
    Needs(Var("02:2303", "array_size", "constexpr", Call("square_if_even", <<Lit(<<4>>)>>)), CPP17),
    Var("02:2304", "compile_time_array", "array", Zeros(Ref("array_size"))),
    Lambda("02:2308", "get_array_size", "02:2308", <<>>, <<>>, <<>>, CPP17),
    Needs(Var("02:2309", "const_array", "array", Zeros(Call("get_array_size", <<Lit(<<3>>)>>))), CPP17),
    Var("02:2312", "result_pair", "pair", MinMax("data")),
    Var("02:2314", "min_val", "int", Deref("data", "result_pair", 1)),
    Var("02:2315", "max_val", "int", Deref("data", "result_pair", 2)),
    Needs(Var("02:2318", "transform_result", "int", Acc(Ref("data"), Lit(<<0>>), Tmp("02:2319", <<>>))), CPP17),
    Cout("02:2323", <<Ref("compile_time_result")>>),
    Cout("02:2324", <<Size("compile_time_array")>>),
    Cout("02:2325", <<Size("const_array")>>),
    Cout("02:2326", <<Ref("min_val"), Ref("max_val")>>),
    Cout("02:2327", <<Ref("transform_result")>>),
    Close("02:2328")>>)

S02b_c17_na == Sect("na", CPP17, <<Text("02:2330")>>)

demonstrate_cpp14_vs_cpp17_comparison(cpp) ==
    S02b_intro
    \o Gated(CPP14, cpp, S02b_c14_can, S02b_c14_na)
    \o Sect("can", CPP14, <<Close("02:2281")>>)
    \o S02b_c14_cannot
    \o Gated(CPP17, cpp, S02b_c17_new, S02b_c17_na)

S02c_intro == Sect("intro", 0, <<
    Text("02:2335"),
    Var("02:2337", "data", "vec", Lit(<<1, 2, 3, 4, 5, 6>>)),
    Text("02:2339"),
    Open("02:2340")>>)

S02c_c17_can == Sect("can", CPP17, <<
    Lambda("02:2343", "lambda1", "02:2343", <<>>, <<>>, <<>>, CPP17),
    Lambda("02:2344", "lambda2", "02:2344", <<>>, <<>>, <<Lit(<<42>>)>>, CPP14),
    Cout("02:2346", <<Call("lambda1", <<Lit(<<5>>)>>)>>),
    Cout("02:2347", <<Call("lambda2", <<Lit(<<3>>)>>)>>)>>)

S02c_c17_na == Sect("na", CPP17, <<Text("02:2349")>>)

S02c_c17_cannot == Sect("cannot", CPP17, <<
    Text("02:2353"),
    Open("02:2354"),
    Text("02:2355"),
    Close("02:2363")>>)

S02c_c20_new == Sect("new", CPP20, <<
    Text("02:2366"),
    Open("02:2367"),
    Lambda("02:2369", "lambda1", "02:2369", <<>>, <<>>, <<>>, CPP20),
    Lambda("02:2370", "lambda2", "02:2370", <<>>, <<>>, <<>>, CPP20),
    Lambda("02:2373", "lambda3", "02:2373", <<>>, <<>>, <<>>, CPP20),
    Lambda("02:2378", "lambda4", "02:2378", <<>>, <<>>, <<>>, CPP20),
    Lambda("02:2381", "generic_container_op", "02:2381", <<>>, <<>>, <<>>, CPP20),
    Lambda("02:2393", "make_tuple_lambda", "02:2393", <<>>, <<>>, <<>>, CPP14),
    Cout("02:2397", <<Call("lambda1", <<Lit(<<5>>)>>)>>),
    Cout("02:2398", <<Call("lambda1", <<Lit(<<314>>)>>)>>),
    Cout("02:2399", <<Call("lambda2", <<Lit(<<500>>), Lit(<<314>>)>>)>>),
    Cout("02:2400", <<Call("lambda3", <<Lit(<<42>>)>>)>>),
    Cout("02:2401", <<Call("lambda4", <<Lit(<<10>>)>>)>>),
    Needs(Var("02:2403", "squared_data", "vec", Call("generic_container_op", <<Ref("data")>>)), CPP14),
    Cout("02:2404", <<Size("squared_data")>>),
    Var("02:2406", "tuple_result", "tuple", Call("make_tuple_lambda", <<Lit(<<1>>), Lit(<<250>>), Lit(<<Str("hello")>>)>>)),
    Needs(Cout("02:2407", <<Size("tuple_result")>>), CPP17),
    Close("02:2408")>>)

S02c_c20_na == Sect("na", CPP20, <<Text("02:2410")>>)

demonstrate_cpp17_vs_cpp20_comparison(cpp) ==
    S02c_intro
    \o Gated(CPP17, cpp, S02c_c17_can, S02c_c17_na)
    \o Sect("can", CPP17, <<Close("02:2351")>>)
    \o S02c_c17_cannot
    \o Gated(CPP20, cpp, S02c_c20_new, S02c_c20_na)

\* The four summaries are printed by every build: no #if surrounds them.
demonstrate_evolution_summary ==
    Sect("intro", 0, <<Text("02:2415")>>)
    \o Sect("summary", CPP11, <<Text("02:2417")>>)
    \o Sect("summary", CPP14, <<Text("02:2427")>>)
    \o Sect("summary", CPP17, <<Text("02:2435")>>)
    \o Sect("summary", CPP20, <<Text("02:2442")>>)

main_02(cpp) ==
    Sect("banner", 0, <<Text("02:2451"), Enter("02:2454", "demonstrate_cpp11_vs_cpp14_comparison")>>)
    \o demonstrate_cpp11_vs_cpp14_comparison(cpp)
    \o <<Leave("02:2262", "demonstrate_cpp11_vs_cpp14_comparison"), Enter("02:2455", "demonstrate_cpp14_vs_cpp17_comparison")>>
    \o demonstrate_cpp14_vs_cpp17_comparison(cpp)
    \o <<Leave("02:2332", "demonstrate_cpp14_vs_cpp17_comparison"), Enter("02:2456", "demonstrate_cpp17_vs_cpp20_comparison")>>
    \o demonstrate_cpp17_vs_cpp20_comparison(cpp)
    \o <<Leave("02:2412", "demonstrate_cpp17_vs_cpp20_comparison"), Enter("02:2457", "demonstrate_evolution_summary")>>
    \o demonstrate_evolution_summary
    \o <<Leave("02:2448", "demonstrate_evolution_summary"), Return("02:2459")>>

(***************************************************************************)
(* 04_lambda_replace_bind.cpp                                              *)
(***************************************************************************)
S04_history == Sect("text", 0, <<Header("04:45"), Text("04:46"), Header("04:60"), Text("04:61")>>)

S04_partial == Sect("demo", CPP11, <<
    Header("04:71"),
    Open("04:72"),
    Text("04:73"),
    Bind("04:76", "bound_cpp11", "04:28", <<Lit(<<2>>)>>, <<-1, 1>>, <<>>),
    Text("04:77"),
    Do("04:78", Call("bound_cpp11", <<Lit(<<10>>)>>)),
    Lambda("04:81", "lambda_cpp11", "04:81", <<>>, <<>>, <<>>, CPP11),
    Text("04:82"),
    Do("04:83", Call("lambda_cpp11", <<Lit(<<10>>)>>)),
    Text("04:85"),
    Close("04:86")>>)

S04_multiple == Sect("demo", CPP11, <<
    Header("04:88"),
    Open("04:89"),
    Text("04:90"),
    Bind("04:93", "bound", "04:32", <<Lit(<<2>>), Lit(<<3>>)>>, <<-1, -2, 1>>, <<>>),
    Text("04:94"),
    Do("04:95", Call("bound", <<Lit(<<5>>)>>)),
    Lambda("04:98", "lambda", "04:98", <<>>, <<>>, <<>>, CPP11),
    Text("04:99"),
    Do("04:100", Call("lambda", <<Lit(<<5>>)>>)),
    Close("04:101")>>)

S04_member == Sect("demo", CPP11, <<
    Header("04:103"),
    Open("04:104"),
    Text("04:105"),
    Var("04:106", "foo", "Foo", Lit(<<>>)),
    Var("04:107", "v", "vec", Lit(<<1, 2, 3>>)),
    Text("04:110"),
    Loop("04:111", Ref("v"), TmpBind("04:37", <<>>, <<1>>, <<"foo">>)),
    Text("04:114"),
    Loop("04:115", Ref("v"), <<"tmp", "04:115", <<>>, <<"foo">>, <<>>, <<>>>>),
    Close("04:116")>>)

S04_function == Sect("demo", CPP11, <<
    Header("04:118"),
    Open("04:119"),
    Text("04:120"),
    Bind("04:126", "bound_add", "04:41", <<Lit(<<10>>)>>, <<-1, 1>>, <<>>),
    Lambda("04:127", "lambda_subtract", "04:127", <<>>, <<>>, <<>>, CPP11),
    Function("04:130", "operation1", Ref("bound_add")),
    Function("04:131", "operation2", Ref("lambda_subtract")),
    Cout("04:133", <<Call("operation1", <<Lit(<<5>>)>>)>>),
    Cout("04:134", <<Call("operation2", <<Lit(<<5>>)>>)>>),
    Text("04:136"),
    Close("04:139")>>)

S04_reorder == Sect("demo", CPP11, <<
    Header("04:141"),
    Open("04:142"),
    Text("04:143"),
    Bind("04:146", "reversed", "04:28", <<>>, <<2, 1>>, <<>>),
    Text("04:147"),
    Do("04:147/2", FCall("04:28", <<Lit(<<10>>), Lit(<<20>>)>>)),
    Text("04:148"),
    Do("04:148/2", Call("reversed", <<Lit(<<10>>), Lit(<<20>>)>>)),
    Lambda("04:151", "lambda_reversed", "04:151", <<>>, <<>>, <<>>, CPP11),
    Text("04:152"),
    Do("04:152/2", Call("lambda_reversed", <<Lit(<<10>>), Lit(<<20>>)>>)),
    Close("04:153")>>)

S04_c14_generic == Sect("new", CPP14, <<
    Header("04:156"),
    Text("04:157"),
    Open("04:160"),
    Text("04:161"),
    Bind("04:164", "bound_generic", "04:41", <<Lit(<<10>>)>>, <<-1, 1>>, <<>>),
    Lambda("04:167", "lambda_generic", "04:167", <<>>, <<>>, <<>>, CPP14),
    Cout("04:169", <<Call("bound_generic", <<Lit(<<5>>)>>)>>),
    Cout("04:170", <<Call("lambda_generic", <<Lit(<<5>>)>>)>>),
    Text("04:172"),
    Close("04:177")>>)

S04_c14_move == Sect("new", CPP14, <<
    Open("04:179"),
    Text("04:180"),
    Var("04:181", "data", "vec", Lit(<<1, 2, 3, 4, 5>>)),
    MoveLambda("04:184", "lambda_with_move", "04:184", "data", CPP14),
    Cout("04:190", <<Call("lambda_with_move", <<Lit(<<2>>)>>)>>),
    Cout("04:191", <<Size("data")>>),
    Text("04:192"),
    Close("04:193")>>)

S04_c14_na == Sect("na", CPP14, <<Header("04:195"), Text("04:196")>>)

S04_why == Sect("text", 0, <<Header("04:199"), Text("04:200"), Header("04:217"), Text("04:218"), Header("04:232"), Text("04:233")>>)

S04_pointer == Sect("demo", CPP11, <<
    Header("04:254"),
    Open("04:255"),
    FuncPtr("04:257", "func_ptr", "04:41"),
    Cout("04:258", <<Call("func_ptr", <<Lit(<<3>>), Lit(<<4>>)>>)>>),
    Bind("04:261", "bind_obj", "04:41", <<Lit(<<10>>)>>, <<-1, 1>>, <<>>),
    Cout("04:262", <<Call("bind_obj", <<Lit(<<5>>)>>)>>),
    Lambda("04:265", "lambda_obj", "04:265", <<>>, <<>>, <<>>, CPP11),
    Cout("04:266", <<Call("lambda_obj", <<Lit(<<5>>)>>)>>),
    Function("04:269", "poly_func", Ref("bind_obj")),
    Cout("04:270", <<Call("poly_func", <<Lit(<<5>>)>>)>>),
    Assign("04:272", "poly_func", Ref("lambda_obj")),
    Cout("04:273", <<Call("poly_func", <<Lit(<<5>>)>>)>>),
    Text("04:275"),
    Close("04:276")>>)

S04_final == Sect("text", 0, <<Header("04:278"), Text("04:279")>>)

main_04(cpp) ==
    S04_history \o S04_partial \o S04_multiple \o S04_member \o S04_function \o S04_reorder
    \o Gated(CPP14, cpp, S04_c14_generic \o S04_c14_move, S04_c14_na)
    \o S04_why \o S04_pointer \o S04_final
    \o <<Return("04:287")>>

(***************************************************************************)
(* 04_lambda_replace_bind.cpp as LAMBDA_GUIDE.md gives it: the same        *)
(* program grown by the functor, callback, perfect-forwarding and          *)
(* std::function sections, and without the function-pointer section.      *)
(***************************************************************************)
S04g_intro == Sect("text", 0, <<Header("04g:516"), Text("04g:517"), Header("04g:524"), Text("04g:525")>>)

S04g_functor == Sect("demo", 0, <<
    Open("04g:537"),
    Functor("04g:538", "times2", "04g:502", <<Lit(<<2>>)>>),
    Functor("04g:539", "times3", "04g:502", <<Lit(<<3>>)>>),
    Text("04g:541"),
    Cout("04g:543", <<Call("times2", <<Lit(<<10>>)>>)>>),
    Cout("04g:544", <<Call("times2", <<Lit(<<5>>)>>)>>),
    Var("04g:546", "nums", "vec", Lit(<<1, 2, 3, 4, 5>>)),
    Var("04g:547", "result", "vec", Lit(<<0, 0, 0, 0, 0>>)),
    Algo("04g:548", "transform_at", "result", Ref("nums"), TmpFunctor("04g:502", <<Lit(<<2>>)>>)),
    Text("04g:550"),
    Loop("04g:553", Ref("result"), NoOp),
    Text("04g:554"),
    Close("04g:555"),
    Text("04g:557"),
    Header("04g:562"),
    Text("04g:563")>>)

S04g_partial == Sect("demo", CPP11, <<
    Header("04g:587"),
    Open("04g:588"),
    Text("04g:589"),
    Bind("04g:592", "bound_cpp11", "04:28", <<Lit(<<2>>)>>, <<-1, 1>>, <<>>),
    Text("04g:593"),
    Do("04g:594", Call("bound_cpp11", <<Lit(<<10>>)>>)),
    Lambda("04g:597", "lambda_cpp11", "04:81", <<>>, <<>>, <<>>, CPP11),
    Text("04g:598"),
    Do("04g:599", Call("lambda_cpp11", <<Lit(<<10>>)>>)),
    Text("04g:601"),
    Close("04g:602")>>)

S04g_multiple == Sect("demo", CPP11, <<
    Header("04g:604"),
    Open("04g:605"),
    Text("04g:606"),
    Bind("04g:609", "bound", "04:32", <<Lit(<<2>>), Lit(<<3>>)>>, <<-1, -2, 1>>, <<>>),
    Text("04g:610"),
    Do("04g:611", Call("bound", <<Lit(<<5>>)>>)),
    Lambda("04g:614", "lambda", "04:98", <<>>, <<>>, <<>>, CPP11),
    Text("04g:615"),
    Do("04g:616", Call("lambda", <<Lit(<<5>>)>>)),
    Close("04g:617")>>)

\* The callback of line 648 is made anew by every iteration of the loop of
\* line 647 and called at once.
S04g_member == Sect("demo", CPP11, <<
    Header("04g:619"),
    Open("04g:620"),
    Text("04g:621"),
    Var("04g:622", "foo", "Foo", Lit(<<>>)),
    Var("04g:623", "v", "vec", Lit(<<1, 2, 3>>)),
    Text("04g:626"),
    Loop("04g:627", Ref("v"), TmpBind("04:37", <<>>, <<1>>, <<"foo">>)),
    Text("04g:630"),
    Loop("04g:631", Ref("v"), <<"tmp", "04:115", <<>>, <<"foo">>, <<>>, <<>>>>),
    Text("04g:633"),
    Var("04g:645", "events", "strvec", Lit(<<Str("event1"), Str("event2"), Str("event3")>>)),
    Text("04g:646"),
    Loop("04g:647", Ref("events"), TmpBind("04g:507", <<>>, <<1>>, <<"foo">>)),
    Close("04g:651")>>)

S04g_function == Sect("demo", CPP11, <<
    Header("04g:653"),
    Open("04g:654"),
    Text("04g:655"),
    Bind("04g:661", "bound_add", "04:41", <<Lit(<<10>>)>>, <<-1, 1>>, <<>>),
    Lambda("04g:662", "lambda_subtract", "04:127", <<>>, <<>>, <<>>, CPP11),
    Function("04g:665", "operation1", Ref("bound_add")),
    Function("04g:666", "operation2", Ref("lambda_subtract")),
    Cout("04g:668", <<Call("operation1", <<Lit(<<5>>)>>)>>),
    Cout("04g:669", <<Call("operation2", <<Lit(<<5>>)>>)>>),
    Text("04g:671"),
    Close("04g:674")>>)

S04g_reorder == Sect("demo", CPP11, <<
    Header("04g:676"),
    Open("04g:677"),
    Text("04g:678"),
    Bind("04g:681", "reversed", "04:28", <<>>, <<2, 1>>, <<>>),
    Text("04g:682"),
    Do("04g:682/2", FCall("04:28", <<Lit(<<10>>), Lit(<<20>>)>>)),
    Text("04g:683"),
    Do("04g:683/2", Call("reversed", <<Lit(<<10>>), Lit(<<20>>)>>)),
    Lambda("04g:686", "lambda_reversed", "04:151", <<>>, <<>>, <<>>, CPP11),
    Text("04g:687"),
    Do("04g:687/2", Call("lambda_reversed", <<Lit(<<10>>), Lit(<<20>>)>>)),
    Close("04g:688")>>)

S04g_c14_generic == Sect("new", CPP14, <<
    Header("04g:691"),
    Text("04g:692"),
    Open("04g:695"),
    Text("04g:696"),
    Bind("04g:699", "bound_generic", "04:41", <<Lit(<<10>>)>>, <<-1, 1>>, <<>>),
    Lambda("04g:702", "lambda_generic", "04:167", <<>>, <<>>, <<>>, CPP14),
    Cout("04g:704", <<Call("bound_generic", <<Lit(<<5>>)>>)>>),
    Cout("04g:705", <<Call("lambda_generic", <<Lit(<<5>>)>>)>>),
    Text("04g:707"),
    Close("04g:712")>>)

S04g_c14_move == Sect("new", CPP14, <<
    Open("04g:714"),
    Text("04g:715"),
    Var("04g:716", "data", "vec", Lit(<<1, 2, 3, 4, 5>>)),
    MoveLambda("04g:719", "lambda_with_move", "04:184", "data", CPP14),
    Cout("04g:725", <<Call("lambda_with_move", <<Lit(<<2>>)>>)>>),
    Cout("04g:726", <<Size("data")>>),
    Text("04g:727"),
    Close("04g:728")>>)

S04g_c14_forward == Sect("new", CPP14, <<
    Open("04g:730"),
    Text("04g:731"),
    Var("04g:746", "foo", "Foo", Lit(<<>>)),
    Lambda("04g:747", "perfect_forward_lambda", "04g:747", <<>>, <<"foo">>, <<>>, CPP14),
    Var("04g:751", "str1", "string", Lit(<<Str("lvalue_string")>>)),
    Text("04g:752"),
    Do("04g:753", Call("perfect_forward_lambda", <<Ref("str1")>>)),
    Text("04g:755"),
    Do("04g:756", Call("perfect_forward_lambda", <<Lit(<<Str("rvalue_string")>>)>>)),
    Text("04g:758"),
    Close("04g:761")>>)

S04g_c14_na == Sect("na", CPP14, <<Header("04g:763"), Text("04g:764")>>)

S04g_why == Sect("text", 0, <<Header("04g:767"), Text("04g:768"), Header("04g:785"), Text("04g:786"), Header("04g:806"), Text("04g:807")>>)

S04g_operations == Sect("demo", CPP11, <<
    Header("04g:847"),
    Open("04g:848"),
    Text("04g:849"),
    Lambda("04g:862", "lambda_multiply", "04g:862", <<>>, <<>>, <<>>, CPP11),
    Bind("04g:865", "bind_add", "04:41", <<Lit(<<10>>)>>, <<-1, 1>>, <<>>),
    Functor("04g:868", "functor", "04g:502", <<Lit(<<3>>)>>),
    Needs(Var("04g:871", "operations", "fnvec", Lit(<<>>)), CPP11),
    PushBack("04g:873", "operations", Ref("lambda_multiply")),
    PushBack("04g:874", "operations", Ref("bind_add")),
    PushBack("04g:875", "operations", Ref("functor")),
    Text("04g:877"),
    CallEach("04g:878", "operations", Lit(<<5>>)),
    Text("04g:882"),
    Close("04g:884")>>)

S04g_tradeoffs == Sect("demo", CPP11, <<
    Header("04g:886"),
    Open("04g:887"),
    Text("04g:888"),
    Lambda("04g:912", "direct_lambda", "04g:912", <<>>, <<>>, <<>>, CPP11),
    Function("04g:913", "wrapped_lambda", Ref("direct_lambda")),
    Text("04g:915"),
    Close("04g:923")>>)

\* Faulty variant: a use case that is run, not printed: a task is made,
\* queued and called.
S04g_usecases_executed == Sect("text", 0, <<
    Header("04g:925"),
    Open("04g:926"),
    Text("04g:927"),
    Lambda("04g:951", "task", "04g:862", <<>>, <<>>, <<>>, CPP11),
    Needs(Var("04g:950", "tasks", "fnvec", Lit(<<>>)), CPP11),
    PushBack("04g:951", "tasks", Ref("task")),
    CallEach("04g:952", "tasks", Lit(<<1>>)),
    Close("04g:965"),
    Header("04g:967"),
    Text("04g:969"),
    Header("04g:996"),
    Text("04g:997"),
    Header("04g:1018"),
    Text("04g:1019"),
    Header("04g:1062"),
    Text("04g:1063")>>)

\* The use cases (callbacks, a thread pool's task queue, a strategy) are
\* shown as text: each block holds output statements only.
S04g_usecases == Sect("text", 0, <<
    Header("04g:925"),
    Open("04g:926"),
    Text("04g:927"),
    Close("04g:965"),
    Header("04g:967"),
    Open("04g:968"),
    Text("04g:969"),
    Close("04g:994"),
    Header("04g:996"),
    Text("04g:997"),
    Header("04g:1018"),
    Text("04g:1019"),
    Header("04g:1062"),
    Text("04g:1063")>>)

main_04g(cpp) ==
    S04g_intro \o S04g_functor \o S04g_partial \o S04g_multiple \o S04g_member \o S04g_function \o S04g_reorder
    \o Gated(CPP14, cpp, S04g_c14_generic \o S04g_c14_move \o S04g_c14_forward, S04g_c14_na)
    \o S04g_why \o S04g_operations \o S04g_tradeoffs \o S04g_usecases
    \o <<Return("04g:1110")>>

\* The translation unit after preprocessing with __cplusplus = cpp.
Code(p, cpp) ==
    CASE p = "00" -> main_00(cpp)
      [] p = "01" -> main_01(cpp)
      [] p = "02" -> main_02(cpp)
      [] p = "03" -> main_03(cpp)
      [] p = "04" -> main_04(cpp)
      [] p = "04g" -> main_04g(cpp)

\* Every build of every program.
Units == [p \in Programs |-> [cpp \in BuildStds(p) |-> Code(p, cpp)]]

(***************************************************************************)
(* Objects in memory.  mem[r] lists the live local objects of run r in     *)
(* the order of their definition; fr is the call frame and d the block     *)
(* depth of the definition.  A callable holds its code (tgt), the values   *)
(* it captured or bound (v), the names it refers to (refs) and, for a      *)
(* bind object, its parameter layout (lay); a vector of std::function      *)
(* holds its elements in el.                                               *)
(***************************************************************************)
Obj(nm, kind, v, tgt, refs, lay, el, fr, d) == [nm |-> nm, kind |-> kind, v |-> v, tgt |-> tgt, refs |-> refs, lay |-> lay, el |-> el, fr |-> fr, d |-> d]
NoObj == Obj("", "none", <<>>, "", <<>>, <<>>, <<>>, 0, 0)

Has(m, n) == \E i \in 1..Len(m) : m[i].nm = n
\* Name lookup: the innermost (latest) definition of the name.
Index(m, n) == CHOOSE i \in 1..Len(m) : m[i].nm = n /\ \A j \in (i + 1)..Len(m) : m[j].nm # n
Lookup(m, n) == IF Has(m, n) THEN m[Index(m, n)] ELSE NoObj

Flat(ss) == LET f[i \in 0..Len(ss)] == IF i = 0 THEN <<>> ELSE f[i - 1] \o ss[i] IN f[Len(ss)]
Sum(ns) == LET f[i \in 0..Len(ns)] == IF i = 0 THEN 0 ELSE f[i - 1] + ns[i] IN f[Len(ns)]

\* Operands without calls.
EvS(m, cpp, e) ==
    CASE e[1] = "lit" -> e[2]
      [] e[1] = "var" -> Lookup(m, e[2]).v
      [] e[1] = "size" -> <<Len(Lookup(m, e[2]).v)>>
      [] e[1] = "mulc" -> <<Lookup(m, e[2]).v[1] * e[3]>>
      [] e[1] = "macro" -> <<cpp>>
      [] e[1] = "minmax" -> MinMaxElement(Lookup(m, e[2]).v)
      [] e[1] = "deref" -> <<Lookup(m, e[2]).v[Lookup(m, e[3]).v[e[4]]]>>
      [] OTHER -> <<>>

\* The callable an expression denotes: a variable, or a temporary lambda
\* or bind object written in place.
Callee(m, c) ==
    CASE c[1] = "var" -> Lookup(m, c[2])
      [] c[1] = "tmp" -> Obj("", IF c[6] # <<>> THEN "bind" ELSE "closure", Flat([i \in 1..Len(c[3]) |-> Lookup(m, c[3][i]).v]) \o Flat([i \in 1..Len(c[5]) |-> EvS(m, 0, c[5][i])]), c[2], c[4], c[6], <<>>, 0, 0)
      [] OTHER -> NoObj

\* A reference capture or bound pointer whose object no longer exists.
Dangling(m, o) == \E i \in 1..Len(o.refs) : ~Has(m, o.refs[i])
\* The captured state the body sees: copies made at definition, then the
\* current values of the objects captured by reference.
\* Faulty variant: a reference capture that does not see its object.
Cap_Unbound(m, o) == IF o.lay # <<>> THEN <<>> ELSE o.v \o Flat([i \in 1..Len(o.refs) |-> <<0>>])
Cap(m, o) == IF o.lay # <<>> THEN <<>> ELSE o.v \o Flat([i \in 1..Len(o.refs) |-> Lookup(m, o.refs[i]).v])
\* Faulty variant: a bind object that passes the call arguments first and
\* the bound values after them.
Actual_CallFirst(o, a) == IF o.lay = <<>> THEN a ELSE a \o o.v
\* std::bind: the arguments the target receives.
Actual(o, a) == IF o.lay = <<>> THEN a ELSE [i \in 1..Len(o.lay) |-> IF o.lay[i] > 0 THEN a[o.lay[i]] ELSE o.v[-o.lay[i]]]

Result(v, say, n, br, err) == [v |-> v, say |-> say, n |-> n, br |-> br, err |-> err]

\* operator(): an empty std::function throws std::bad_function_call.
Invoke(m, o, a) ==
    IF o.tgt = "" THEN Result(<<>>, <<>>, 0, {}, "bad_function_call")
    ELSE IF Dangling(m, o) \/ Faults(o.tgt, Cap(m, o), Actual(o, a)) THEN Result(<<>>, <<>>, 0, {}, "ub")
    ELSE Result(Apply(o.tgt, Cap(m, o), Actual(o, a)), Says(o.tgt, Cap(m, o), Actual(o, a)), 1, Outcomes(o.tgt, Cap(m, o), Actual(o, a)), "")

EvalCall(m, cpp, e) == Invoke(m, Callee(m, e[2]), Flat([i \in 1..Len(e[3]) |-> EvS(m, cpp, e[3][i])]))

Eval(m, cpp, e) ==
    CASE e[1] = "call" -> EvalCall(m, cpp, e)
      [] e[1] = "zeros" ->
            LET n == IF e[2][1] = "call" THEN EvalCall(m, cpp, e[2]) ELSE Result(EvS(m, cpp, e[2]), <<>>, 0, {}, "")
            IN  IF n.err # "" THEN n ELSE [n EXCEPT !.v = [i \in 1..n.v[1] |-> 0]]
      [] e[1] = "acc" ->
            LET o == Callee(m, e[4])
                src == EvS(m, cpp, e[2])
                init == EvS(m, cpp, e[3])[1]
            IN  IF o.tgt = "" THEN Result(<<>>, <<>>, 0, {}, "bad_function_call")
                ELSE Result(<<Accumulate(src, init, LAMBDA s, x: Apply(o.tgt, Cap(m, o), <<s, x>>)[1])>>, <<>>, Len(src), UNION {Outcomes(o.tgt, Cap(m, o), <<0, src[i]>>) : i \in 1..Len(src)}, "")
      [] OTHER -> Result(EvS(m, cpp, e), <<>>, 0, {}, "")

\* The operands of one statement, left to right.
EvalAll(m, cpp, es) ==
    LET rs == [i \in 1..Len(es) |-> Eval(m, cpp, es[i])]
        bad == {i \in 1..Len(es) : rs[i].err # ""}
    IN  Result(Flat([i \in 1..Len(es) |-> rs[i].v]), Flat([i \in 1..Len(es) |-> rs[i].say]), Sum([i \in 1..Len(es) |-> rs[i].n]), UNION {rs[i].br : i \in 1..Len(es)}, IF bad = {} THEN "" ELSE rs[CHOOSE i \in bad : \A j \in bad : i <= j].err)

(***************************************************************************)
(* The runs.                                                               *)
(***************************************************************************)
\* Faulty variant: a build whose language level also depends on the
\* environment of the run.
Cplusplus_FromEnv(r) == IF env[r] = 1 THEN CPP11 ELSE std[r]

\* __cplusplus in the build of run r: set by the -std flag alone.
Cplusplus(r) == std[r]
\* The translation unit the compiler produced for run r.
Build(r) == Units[prog][Cplusplus(r)]
Unit(r) == unit[r]
\* Run 2 starts when run 1 has ended.
Turn(r) == IF r = 1 THEN TRUE ELSE status[r - 1] # "run"
Running(r) == status[r] = "run" /\ Turn(r) /\ pc[r] <= Len(Unit(r))
Cur(r) == Unit(r)[pc[r]]
At(r, k) == Running(r) /\ Cur(r).k = k
Top(r) == frames[r][Len(frames[r])]
\* Faulty variant: a callable with reference captures that is kept in the
\* enclosing block.
Here_Outer(r, s, kind, v, tgt, refs, lay) == Obj(s.nm, kind, v, tgt, refs, lay, <<>>, Len(frames[r]), IF refs = <<>> THEN Top(r).d ELSE Top(r).d - 1)
Here(r, s, kind, v, tgt, refs, lay) == Obj(s.nm, kind, v, tgt, refs, lay, <<>>, Len(frames[r]), Top(r).d)

\* Faulty variant: a statement skipped at run time once some conditional has
\* been evaluated.
NextPc_Branch(r) == IF taken[r] # {} /\ unit[r][pc[r]].k = "text" THEN pc[r] + 2 ELSE pc[r] + 1

\* Statements follow one another.
NextPc(r) == pc[r] + 1

\* An uncaught exception ends the run through std::terminate; undefined
\* behaviour leaves the rest of the run unconstrained.
Fail(r, err) ==
    /\ status' = [status EXCEPT ![r] = IF err = "ub" THEN "ub" ELSE "abort"]
    /\ UNCHANGED <<prog, std, env, unit, pc, it, out, mem, frames, calls, taken>>

Effect(r, res, newmem, lines) ==
    IF res.err # "" THEN Fail(r, res.err)
    ELSE /\ out' = [out EXCEPT ![r] = @ \o res.say \o lines]
         /\ mem' = [mem EXCEPT ![r] = newmem]
         /\ calls' = [calls EXCEPT ![r] = @ + res.n]
         /\ taken' = [taken EXCEPT ![r] = @ \cup res.br]
         /\ pc' = [pc EXCEPT ![r] = NextPc(r)]
         /\ UNCHANGED <<prog, std, env, unit, it, frames, status>>

\* arg and ret are the operands and the results of a lambda or function
\* called on its own; the programs call theirs on the operands they define.
NoCall == [f |-> "", v |-> <<>>]

Init ==
    /\ prog \in Programs
    /\ std \in [Runs -> BuildStds(prog)]
    /\ env \in [Runs -> 0..MaxEnv]
    /\ unit = [r \in Runs |-> Build(r)]
    /\ pc = [r \in Runs |-> 1]
    /\ it = [r \in Runs |-> 0]
    /\ out = [r \in Runs |-> <<>>]
    /\ mem = [r \in Runs |-> <<>>]
    /\ frames = [r \in Runs |-> <<[fn |-> "main", d |-> 0]>>]
    /\ status = [r \in Runs |-> "run"]
    /\ calls = [r \in Runs |-> 0]
    /\ taken = [r \in Runs |-> {}]
    /\ arg = <<>>
    /\ ret = NoCall

\* std::cout << "literal text";
ExecText(r) ==
    /\ At(r, "text")
    /\ out' = [out EXCEPT ![r] = Append(@, Line(Cur(r).id, <<>>))]
    /\ pc' = [pc EXCEPT ![r] = NextPc(r)]
    /\ UNCHANGED <<prog, std, env, unit, it, mem, frames, status, calls, taken>>

\* std::cout << ... << value << ...;  and the expression statement f(x);
ExecPrint(r) ==
    /\ At(r, "print") \/ At(r, "do")
    /\ LET res == EvalAll(mem[r], Cplusplus(r), Cur(r).e)
       IN  Effect(r, res, mem[r], IF Cur(r).k = "do" THEN <<>> ELSE <<Line(Cur(r).id, res.v)>>)

\* {
ExecOpen(r) ==
    /\ At(r, "open")
    /\ frames' = [frames EXCEPT ![r][Len(frames[r])].d = @ + 1]
    /\ pc' = [pc EXCEPT ![r] = NextPc(r)]
    /\ UNCHANGED <<prog, std, env, unit, it, out, mem, status, calls, taken>>

\* Faulty variant: a block whose objects survive its closing brace.
ExecClose_Leak(r) ==
    /\ At(r, "close")
    /\ frames' = [frames EXCEPT ![r][Len(frames[r])].d = @ - 1]
    /\ pc' = [pc EXCEPT ![r] = NextPc(r)]
    /\ UNCHANGED <<prog, std, env, unit, it, out, mem, status, calls, taken>>

\* }: the objects of the block are destroyed
ExecClose(r) ==
    /\ At(r, "close")
    /\ mem' = [mem EXCEPT ![r] = SelectSeq(@, LAMBDA o: ~(o.fr = Len(frames[r]) /\ o.d = Top(r).d))]
    /\ frames' = [frames EXCEPT ![r][Len(frames[r])].d = @ - 1]
    /\ pc' = [pc EXCEPT ![r] = NextPc(r)]
    /\ UNCHANGED <<prog, std, env, unit, it, out, status, calls, taken>>

\* demonstrate_xxx();
ExecEnter(r) ==
    /\ At(r, "enter")
    /\ frames' = [frames EXCEPT ![r] = Append(@, [fn |-> Cur(r).fn, d |-> 0])]
    /\ pc' = [pc EXCEPT ![r] = NextPc(r)]
    /\ UNCHANGED <<prog, std, env, unit, it, out, mem, status, calls, taken>>

\* the closing brace of demonstrate_xxx: its locals are destroyed
ExecLeave(r) ==
    /\ At(r, "leave")
    /\ mem' = [mem EXCEPT ![r] = SelectSeq(@, LAMBDA o: o.fr # Len(frames[r]))]
    /\ frames' = [frames EXCEPT ![r] = SubSeq(@, 1, Len(@) - 1)]
    /\ pc' = [pc EXCEPT ![r] = NextPc(r)]
    /\ UNCHANGED <<prog, std, env, unit, it, out, status, calls, taken>>

\* return 0; from main
ExecReturn(r) ==
    /\ At(r, "return")
    /\ mem' = [mem EXCEPT ![r] = SelectSeq(@, LAMBDA o: o.fr # Len(frames[r]))]
    /\ frames' = [frames EXCEPT ![r] = SubSeq(@, 1, Len(@) - 1)]
    /\ status' = [status EXCEPT ![r] = "exit0"]
    /\ pc' = [pc EXCEPT ![r] = NextPc(r)]
    /\ UNCHANGED <<prog, std, env, unit, it, out, calls, taken>>

\* A constexpr initialiser and a template argument are computed by the
\* compiler: the run makes no call.
AtCompileTime(s, res) == IF s.vk \in {"constexpr", "array"} THEN [res EXCEPT !.n = 0, !.br = {}] ELSE res

\* T name = initialiser;
ExecVar(r) ==
    /\ At(r, "var")
    /\ LET res == AtCompileTime(Cur(r), Eval(mem[r], Cplusplus(r), Cur(r).e[1]))
       IN  Effect(r, res, Append(mem[r], Here(r, Cur(r), Cur(r).vk, res.v, "", <<>>, <<>>)), <<>>)

\* auto [a, b] = f(x);
ExecSBind(r) ==
    /\ At(r, "sbind")
    /\ LET res == Eval(mem[r], Cplusplus(r), Cur(r).e[1])
           s == Cur(r)
       IN  Effect(r, res, mem[r] \o [i \in 1..Len(s.capv) |-> Obj(s.capv[i], "int", <<res.v[i]>>, "", <<>>, <<>>, <<>>, Len(frames[r]), Top(r).d)], <<>>)

\* Faulty variant: a capture that copies the vector and leaves it as it was.
MovedFrom_Copied(m, n) == m
MovedFrom_Aliased(m, n) == IF n = "" THEN m ELSE [i \in 1..Len(m) |-> IF m[i].kind = m[Index(m, n)].kind /\ m[i].v = m[Index(m, n)].v THEN [m[i] EXCEPT !.v = <<>>] ELSE m[i]]
\* std::move(x) leaves the vector x empty.
MovedFrom(m, n) == IF n = "" THEN m ELSE [m EXCEPT ![Index(m, n)].v = <<>>]

\* auto name = [captures](params) { body };  (also a functor object and a
\* function pointer: callables with state v and code tgt)
ExecLambda(r) ==
    /\ At(r, "lambda")
    /\ LET s == Cur(r)
           m == mem[r]
           v == IF s.mv # "" THEN Lookup(m, s.mv).v ELSE Flat([i \in 1..Len(s.capv) |-> Lookup(m, s.capv[i]).v]) \o Flat([i \in 1..Len(s.e) |-> EvS(m, Cplusplus(r), s.e[i])])
       IN  Effect(r, Result(<<>>, <<>>, 0, {}, ""), Append(MovedFrom(m, s.mv), Here(r, s, IF s.vk = "" THEN "closure" ELSE s.vk, v, s.tgt, s.capr, <<>>)), <<>>)

\* auto name = std::bind(f, bound..., placeholders...);
ExecBind(r) ==
    /\ At(r, "bind")
    /\ LET s == Cur(r)
           v == Flat([i \in 1..Len(s.e) |-> EvS(mem[r], Cplusplus(r), s.e[i])])
       IN  Effect(r, Result(<<>>, <<>>, 0, {}, ""), Append(mem[r], Here(r, s, "bind", v, s.tgt, s.capr, s.lay)), <<>>)

\* Faulty variant: a std::function that keeps its first target when another
\* callable is assigned to it.
Holding_First(o, c) == IF o.tgt # "" THEN o ELSE [o EXCEPT !.v = c.v, !.tgt = c.tgt, !.refs = c.refs, !.lay = c.lay]
\* The std::function o once it holds a copy of the callable c.
Holding(o, c) == [o EXCEPT !.v = c.v, !.tgt = c.tgt, !.refs = c.refs, !.lay = c.lay]
\* std::function<int(int)> f;  holds no callable
EmptyFunction == Obj("", "function", <<>>, "", <<>>, <<>>, <<>>, 0, 0)

\* std::function<int(int)> name = callable;  name = callable;
\* vec.push_back(callable);  the wrapper holds a copy of the callable
ExecFunction(r) ==
    /\ At(r, "function")
    /\ LET s == Cur(r)
           m == mem[r]
           c == Callee(m, s.e[1])
           w == Holding(EmptyFunction, c)
           newmem == CASE s.vk = "init" -> Append(m, Holding(Here(r, s, "function", <<>>, "", <<>>, <<>>), c))
                       [] s.vk = "assign" -> [m EXCEPT ![Index(m, s.nm)] = Holding(@, c)]
                       [] OTHER -> [m EXCEPT ![Index(m, s.nm)].el = Append(@, w)]
       IN  Effect(r, Result(<<>>, <<>>, 0, {}, ""), newmem, <<>>)

\* std::copy_if / std::transform into a named destination
ExecAlgo_InPlace(r) ==
    /\ At(r, "algo")
    /\ LET s == Cur(r)
           m == mem[r]
           src == EvS(m, Cplusplus(r), s.e[1])
           o == Callee(m, s.e[2])
           dest == Lookup(m, s.nm).v
           F(x) == Apply(o.tgt, Cap(m, o), <<x>>)[1]
           v == CASE s.vk = "copy_if" -> CopyIf(src, dest, LAMBDA x: F(x) = 1)
                  [] s.vk = "transform" -> Transform(src, dest, F)
                  [] OTHER -> TransformAt(src, dest, F)
           err == IF o.tgt = "" THEN "bad_function_call" ELSE IF s.vk = "transform_at" /\ Len(dest) < Len(src) THEN "ub" ELSE ""
       IN  Effect(r, Result(<<>>, <<>>, Len(src), UNION {Outcomes(o.tgt, Cap(m, o), <<src[i]>>) : i \in 1..Len(src)}, err), [m EXCEPT ![Index(m, s.e[1][2])].v = v], <<>>)

ExecAlgo(r) ==
    /\ At(r, "algo")
    /\ LET s == Cur(r)
           m == mem[r]
           src == EvS(m, Cplusplus(r), s.e[1])
           o == Callee(m, s.e[2])
           dest == Lookup(m, s.nm).v
           F(x) == Apply(o.tgt, Cap(m, o), <<x>>)[1]
           v == CASE s.vk = "copy_if" -> CopyIf(src, dest, LAMBDA x: F(x) = 1)
                  [] s.vk = "transform" -> Transform(src, dest, F)
                  [] OTHER -> TransformAt(src, dest, F)
           err == IF o.tgt = "" THEN "bad_function_call" ELSE IF s.vk = "transform_at" /\ Len(dest) < Len(src) THEN "ub" ELSE ""
       IN  Effect(r, Result(<<>>, <<>>, Len(src), UNION {Outcomes(o.tgt, Cap(m, o), <<src[i]>>) : i \in 1..Len(src)}, err), [m EXCEPT ![Index(m, s.nm)].v = v], <<>>)

\* for (x : container) ...;  std::for_each(first, last, f);
\* for (i = 0; i < fs.size(); ++i) ... fs[i](arg) ...;
LoopLen(r) == IF Cur(r).vk = "calls" THEN Len(Lookup(mem[r], Cur(r).e[1][2]).el) ELSE Len(EvS(mem[r], Cplusplus(r), Cur(r).e[1]))
\* Faulty variant: a loop that never advances to the next element.
NextIt_Stuck(r) == it[r]
NextIt(r) == it[r] + 1
ExecLoop(r) ==
    /\ At(r, "loop")
    /\ IF it[r] < LoopLen(r)
       THEN LET s == Cur(r)
                m == mem[r]
                i == it[r] + 1
                x == EvS(m, Cplusplus(r), s.e[1])[i]
                res == IF s.vk = "calls" THEN Invoke(m, Lookup(m, s.e[1][2]).el[i], EvS(m, Cplusplus(r), s.e[2]))
                       ELSE IF s.e[2] = NoOp THEN Result(<<x>>, <<>>, 0, {}, "")
                       ELSE Invoke(m, Callee(m, s.e[2]), <<x>>)
            IN  IF res.err # "" THEN Fail(r, res.err)
                ELSE /\ out' = [out EXCEPT ![r] = @ \o res.say \o (IF res.v = <<>> THEN <<>> ELSE <<Line(s.id, res.v)>>)]
                     /\ calls' = [calls EXCEPT ![r] = @ + res.n]
                     /\ taken' = [taken EXCEPT ![r] = @ \cup res.br]
                     /\ it' = [it EXCEPT ![r] = NextIt(r)]
                     /\ UNCHANGED <<prog, std, env, unit, pc, mem, frames, status>>
       ELSE /\ pc' = [pc EXCEPT ![r] = NextPc(r)]
            /\ it' = [it EXCEPT ![r] = 0]
            /\ UNCHANGED <<prog, std, env, unit, out, mem, frames, status, calls, taken>>

Step(r) ==
    \/ ExecText(r)
    \/ ExecPrint(r)
    \/ ExecOpen(r)
    \/ ExecClose(r)
    \/ ExecEnter(r)
    \/ ExecLeave(r)
    \/ ExecReturn(r)
    \/ ExecVar(r)
    \/ ExecSBind(r)
    \/ ExecLambda(r)
    \/ ExecBind(r)
    \/ ExecFunction(r)
    \/ ExecAlgo(r)
    \/ ExecLoop(r)

Next == \E r \in Runs : Step(r) /\ UNCHANGED <<arg, ret>>

Spec == Init /\ [][Next]_vars

(***************************************************************************)
(* The lambdas, bind objects and functions of the programs called on       *)
(* operands other than the ones the programs give them.  An int has a      *)
(* fixed width (16 bits here, so that the products stay within the         *)
(* integers of the model checker): a result outside its range is signed    *)
(* overflow, which is undefined behaviour; UB stands for "no defined       *)
(* value" and stays UB in every later sum.                                 *)
(***************************************************************************)
MaxLen == 3
INT_MAX == 2^15 - 1
UB == INT_MAX + 1
int(x) == IF x \in (-INT_MAX - 1)..INT_MAX THEN x ELSE UB
\* Operands: small values of each sign, and values whose square, double or
\* sum is at the edge of int.
Operands == {-182, -2, 0, 1, 3, 181, 182, 2^14}
Vectors == UNION {[1..n -> Operands] : n \in 0..MaxLen}

\* No program runs while a function is called on its own.
Idle ==
    /\ prog = "03"
    /\ std = [r \in Runs |-> CPP20]
    /\ env = [r \in Runs |-> 0]
    /\ unit = [r \in Runs |-> <<>>]
    /\ pc = [r \in Runs |-> 1]
    /\ it = [r \in Runs |-> 0]
    /\ out = [r \in Runs |-> <<>>]
    /\ mem = [r \in Runs |-> <<>>]
    /\ frames = [r \in Runs |-> <<>>]
    /\ status = [r \in Runs |-> "exit0"]
    /\ calls = [r \in Runs |-> 0]
    /\ taken = [r \in Runs |-> {}]

\* 01: std::vector<int> numbers = {1, 2, 3, 4, 5};
numbers_01 == <<1, 2, 3, 4, 5>>

\* The arguments of the absolute-value lambdas in 03 (-5 and -7), zero, and
\* the ends of int.
data_02c == <<1, 2, 3, 4, 5, 6>>
abs_03 == <<-5, -7, 0, -INT_MAX - 1, -INT_MAX, INT_MAX>>
FunInit ==
    /\ Idle
    /\ arg \in Vectors \cup {data_03, numbers_01, abs_03, data_02c}
    /\ ret = NoCall

Returns(f, v) ==
    /\ ret = NoCall
    /\ ret' = [f |-> f, v |-> v]
    /\ UNCHANGED <<prog, std, env, unit, pc, it, out, mem, frames, status, calls, taken, arg>>

\* 03, C++11: copy_if into positives, transform into squared, accumulate.
Pipeline_11(data) ==
    LET positives == CopyIf(data, <<>>, is_positive_11)
        squared == Transform(positives, <<>>, LAMBDA x: int(square_11(x)))
    IN  Accumulate(squared, 0, LAMBDA a, b: int(add_11(a, b)))
\* 03, C++14: one accumulate with [is_positive, square](auto sum, auto value)
Pipeline_14(data) == Accumulate(data, 0, LAMBDA sum, value: int(pipeline_14(sum, value)))
\* 03, C++17: one accumulate with [process_value](auto sum, auto value)
Pipeline_17(data) == Accumulate(data, 0, LAMBDA sum, value: int(pipeline_17(sum, value)))
\* 03, C++20: safe_processor(data, is_positive, square)
Pipeline_20(data) == Accumulate(data, 0, LAMBDA result, item: int(IF is_positive_20(item) THEN result + square_20(item) ELSE result))

CallPipelines == Returns("pipeline", <<Pipeline_11(arg), Pipeline_14(arg), Pipeline_17(arg), Pipeline_20(arg)>>)

\* A closure: the object that auto f = [captures](...) {...}; defines.
Closure(nm, tgt, cap) == Obj(nm, "closure", cap, tgt, <<>>, <<>>, <<>>, 1, 0)
\* for (int n : v) { std::cout << f(n) << " "; }  the values of one row
Row(m, f, v) == [i \in 1..Len(v) |-> int(Invoke(m, Lookup(m, f), <<v[i]>>).v[1])]

\* 01: the doubler of each section that the standard activates, applied to
\* each element; the constexpr doubler(5) as the compiler computes it and
\* as a call computes it.
CallDoublers ==
    \E cpp \in BuildStds("01") :
        LET m == <<Closure("doubler", "01:344", <<>>), Closure("doubler_14", "01:390", <<>>), Closure("doubler_17", "01:441", <<>>), Closure("safe_doubler", "01:476", <<>>)>>
            T == <<CPP11, CPP14, CPP17, CPP20>>
            ct == Var("01:446", "compile_time_result", "constexpr", Call("doubler_17", <<Lit(<<5>>)>>))
        IN  Returns("doubler", [cpp |-> cpp,
                                rows |-> [k \in 1..4 |-> IF Active(T[k], cpp) THEN <<Row(m, m[k].nm, arg)>> ELSE <<>>],
                                compile_time_result |-> IF Active(CPP17, cpp) THEN AtCompileTime(ct, Eval(m, cpp, ct.e[1])).v ELSE <<>>,
                                run_time_result |-> IF Active(CPP17, cpp) THEN Row(m, "doubler_17", <<5>>) ELSE <<>>])

\* The object that auto b = std::bind(f, bound..., placeholders...); defines.
BindObj(nm, tgt, bound, lay) == Obj(nm, "bind", bound, tgt, <<>>, lay, <<>>, 1, 0)
\* What the calls f(v[1]), f(v[2]), ... write, in order; an operand or a
\* result that is not an int is written as UB.
Written(lines) == [i \in 1..Len(lines) |-> [lines[i] EXCEPT !.v = [j \in 1..Len(@) |-> int(@[j])]]]
ForEach(m, v, o) == Written(Flat([i \in 1..Len(v) |-> Invoke(m, o, <<v[i]>>).say]))

\* 04: each bind object and the lambda shown as its equivalent, called on
\* the same operands.
CallBound ==
    LET m == <<Obj("foo", "Foo", <<>>, "", <<>>, <<>>, <<>>, 1, 0)>>
    IN  Returns("bind", [partial |-> <<ForEach(m, arg, BindObj("bound_cpp11", "04:28", <<2>>, <<-1, 1>>)),
                                       ForEach(m, arg, Closure("lambda_cpp11", "04:81", <<>>))>>,
                         multiple |-> <<ForEach(m, arg, BindObj("bound", "04:32", <<2, 3>>, <<-1, -2, 1>>)),
                                        ForEach(m, arg, Closure("lambda", "04:98", <<>>))>>,
                         member |-> <<ForEach(m, arg, Callee(m, TmpBind("04:37", <<>>, <<1>>, <<"foo">>))),
                                      ForEach(m, arg, Callee(m, <<"tmp", "04:115", <<>>, <<"foo">>, <<>>, <<>>>>))>>])

\* 04: print_sum(a, b); reversed(a, b); lambda_reversed(a, b);
CallReversed ==
    /\ Len(arg) >= 2
    /\ LET a == <<arg[1], arg[2]>>
           call(o) == Written(Invoke(<<>>, o, a).say)
       IN  Returns("reorder", [direct |-> call(Callee(<<>>, FCall("04:28", <<>>)[2])),
                               reversed |-> call(BindObj("reversed", "04:28", <<>>, <<2, 1>>)),
                               lambda_reversed |-> call(Closure("lambda_reversed", "04:151", <<>>))])

\* 04: the callables stored in std::function objects: the lambda x * 2,
\* std::bind(add, 10, _1), Multiplier(3) and the lambda subtract(20, x).
Callables == <<Closure("lambda_multiply", "04g:862", <<>>), BindObj("bind_add", "04:41", <<10>>, <<-1, 1>>), Obj("functor", "functor", <<3>>, "04g:502", <<>>, <<>>, <<>>, 1, 0), Closure("lambda_subtract", "04:127", <<>>)>>
\* f(v[1]), f(v[2]), ... : the values returned
Values(o, v) == [i \in 1..Len(v) |-> int(Invoke(<<>>, o, <<v[i]>>).v[1])]

\* Each callable called directly, through a std::function initialised with
\* it, through a std::function that held another callable before, and
\* through the elements of a vector filled by push_back.
CallFunction ==
    LET operations == [k \in 1..3 |-> Holding(EmptyFunction, Callables[k])]
    IN  Returns("function", [direct |-> [k \in 1..4 |-> Values(Callables[k], arg)],
                             stored |-> [k \in 1..4 |-> Values(Holding(EmptyFunction, Callables[k]), arg)],
                             assigned |-> [k \in 1..4 |-> [j \in 1..4 |-> Values(Holding(Holding(EmptyFunction, Callables[k]), Callables[j]), arg)]],
                             operations |-> [i \in 1..Len(arg) |-> [k \in 1..3 |-> Values(operations[k], <<arg[i]>>)[1]]]])

\* 03: the three absolute-value lambdas called with each element.
CallAbs == Returns("abs", [i \in 1..Len(arg) |-> [x |-> arg[i], abs_value |-> int(abs_value_11(arg[i])), abs_value2 |-> int(abs_value2(arg[i])), abs_value_14 |-> int(abs_value_14(arg[i]))]])

\* 03: get_stats(vec), and the vector that the copy_if of the C++11
\* section filters from the same input.
CallStats == Returns("get_stats", [stats |-> get_stats(arg), positives |-> CopyIf(arg, <<>>, is_positive_11)])

\* 02, C++20: generic_container_op(c, operation) with the operation given
\* as one of the capture-less int lambdas of 02 (x * 2, x * x, x + 1), and
\* as called in the demo, with the squaring lambda written in place.
Operations == {"02:2197", "02:2273", "02:2378"}
generic_container_op_with(c, operation) == Transform(c, <<>>, LAMBDA x: int(Apply(operation, <<>>, <<x>>)[1]))
CallContainerOp == \E operation \in Operations : Returns("generic_container_op", [operation |-> operation, result |-> generic_container_op_with(arg, operation), squared_data |-> generic_container_op(arg)])

FunNext ==
    \/ CallPipelines
    \/ CallDoublers
    \/ CallBound
    \/ CallReversed
    \/ CallFunction
    \/ CallAbs
    \/ CallStats
    \/ CallContainerOp

FunSpec == FunInit /\ [][FunNext]_vars

(***************************************************************************)
(* Properties.                                                             *)
(***************************************************************************)
Ended(r) == status[r] # "run"
\* The statements that wrote the lines of an output.
Shown(o) == {o[i].id : i \in 1..Len(o)}
\* Statements that can call: their expressions are evaluated at run time.
CallSite(s) == s.k \in {"print", "do", "var", "sbind", "algo", "loop"}
\* What is left to do: the statements after this one, then the elements
\* the loop being executed has not visited.
Work(r) == <<Len(unit[r]) + 1 - pc[r], IF pc[r] <= Len(unit[r]) /\ unit[r][pc[r]].k = "loop" THEN LoopLen(r) - it[r] ELSE 0>>
\* Statements some step executes.
Handled(s) == s.k \in {"text", "print", "do", "open", "close", "enter", "leave", "return", "var", "sbind", "lambda", "bind", "function", "algo", "loop"}
Less(a, b) == a[1] < b[1] \/ (a[1] = b[1] /\ a[2] < b[2])
Moved(r) == pc'[r] # pc[r] \/ it'[r] # it[r] \/ status'[r] # status[r] \/ out'[r] # out[r]

\* C1: every program, under every standard, runs its whole sequence to the
\* end of main and returns 0, and every loop terminates: a run that has not
\* ended stands at a statement that a step executes, it never ends otherwise
\* than by return 0 at the end of main, and every step it takes leaves
\* strictly less work (statements left, then loop elements left), which
\* cannot go on for ever.
C1_Terminates ==
    /\ [](\A r \in Runs :
            /\ status[r] \in {"run", "exit0"}
            /\ status[r] = "run" => (pc[r] <= Len(unit[r]) /\ Handled(unit[r][pc[r]]))
            /\ status[r] = "exit0" <=> pc[r] = Len(unit[r]) + 1
            /\ Work(r)[1] >= 0 /\ Work(r)[2] >= 0)
    /\ [][\A r \in Runs : Moved(r) => Less(Work(r)', Work(r))]_vars

\* A run of the evolution demo under C++20 that has gone through its loops
\* and calls and returned 0, after the first run did.
C1_Witness == prog = "03" /\ std[2] = CPP20 /\ status[1] = "exit0" /\ status[2] = "exit0" /\ calls[2] > 0 /\ \E i \in 1..Len(out[2]) : out[2][i] = Line("03:50", <<81>>)

C3_Monotone ==
    std[1] <= std[2] =>
        /\ {unit[1][i] : i \in {n \in 1..Len(unit[1]) : ~unit[1][n].els}} \subseteq {unit[2][j] : j \in 1..Len(unit[2])}
        /\ (status[1] = "exit0" /\ status[2] = "exit0") =>
                \A i \in 1..Len(out[1]) :
                    out[1][i].id \notin {unit[1][k].id : k \in {n \in 1..Len(unit[1]) : unit[1][n].els}} =>
                        \E j \in 1..Len(out[2]) : out[2][j].id = out[1][i].id /\ (out[2][j].v = out[1][i].v \/ out[1][i].v = <<std[1]>>)

\* The evolution demo built with C++11 and with C++20: the second prints
\* the C++20 result, which the first does not, and all the first printed.
C3_Witness == prog = "03" /\ std[1] = CPP11 /\ std[2] = CPP20 /\ status[1] = "exit0" /\ status[2] = "exit0" /\ "03:215" \in Shown(out[2]) /\ "03:215" \notin Shown(out[1]) /\ "03:51" \in Shown(out[1])

\* C4: the version check prints __cplusplus, then one line for each of
\* C++11, C++14, C++17, C++20 in this order: the YES line of the level if
\* __cplusplus is at least its threshold, the NO line otherwise.
C4_VersionLines ==
    \A r \in Runs : (prog = "00" /\ status[r] = "exit0") =>
        out[r] = <<Line("00:15", <<std[r]>>),
                   Line(IF std[r] >= 201103 THEN "00:18" ELSE "00:20", <<>>),
                   Line(IF std[r] >= 201402 THEN "00:24" ELSE "00:26", <<>>),
                   Line(IF std[r] >= 201703 THEN "00:30" ELSE "00:32", <<>>),
                   Line(IF std[r] >= 202002 THEN "00:36" ELSE "00:38", <<>>)>>

\* A C++20 build of the version check has printed 202002 and four YES lines.
C4_Witness == prog = "00" /\ std[1] = CPP20 /\ status[1] = "exit0" /\ out[1][1].v = <<202002>> /\ Shown(out[1]) = {"00:15", "00:18", "00:24", "00:30", "00:36"}

\* C5: feature use is gated: every statement of a build is accepted by the
\* standard of the build; a statement outside every #if needs no more than
\* C++11; a statement that needs more lies in the #if part (not the #else
\* part) of a guard whose threshold is at least the standard it needs.
C5_GatedFeatures ==
    \A r \in Runs : \A i \in 1..Len(unit[r]) :
        /\ unit[r][i].needs <= std[r]
        /\ unit[r][i].gate = 0 => unit[r][i].needs <= CPP11
        /\ unit[r][i].needs > CPP11 => (unit[r][i].gate >= unit[r][i].needs /\ ~unit[r][i].els)

\* A C++20 build has defined the template lambda of the evolution demo, and
\* a C++11 build of the same program has ended without it.
C5_Witness == prog = "03" /\ std[1] = CPP11 /\ status[1] = "exit0" /\ std[2] = CPP20 /\ Has(mem[2], "safe_processor") /\ \E i \in 1..Len(unit[2]) : unit[2][i].needs = CPP20 /\ unit[2][i].gate = CPP20

\* C6: no run-time error: no run ends by an exception or by undefined
\* behaviour; every std::function object, and every std::function held in
\* a vector, holds a callable for as long as it exists; the vector that
\* lambda3 indexes with v[0] is not empty.
C6_NoRuntimeError ==
    \A r \in Runs :
        /\ status[r] \in {"run", "exit0"}
        /\ \A i \in 1..Len(mem[r]) :
            /\ mem[r][i].kind = "function" => mem[r][i].tgt # ""
            /\ \A j \in 1..Len(mem[r][i].el) : mem[r][i].el[j].tgt # ""
            /\ mem[r][i].tgt = "02:2231" => mem[r][i].v # <<>>

\* The std::function poly_func, first holding the bind object, has been
\* given the lambda and called again.
C6_Witness == prog = "04" /\ \E r \in Runs : Has(mem[r], "poly_func") /\ Lookup(mem[r], "poly_func").tgt = "04:265" /\ Line("04:273", <<15>>) \in {out[r][i] : i \in 1..Len(out[r])}

\* What a step may change of run r other than its position and its text.
Touched(r) == mem'[r] # mem[r] \/ calls'[r] # calls[r] \/ taken'[r] # taken[r] \/ frames'[r] # frames[r] \/ out'[r] # out[r] \/ pc'[r] # pc[r] \/ it'[r] # it[r] \/ status'[r] # status[r]

\* C7 as stated: no callable is stored for a later call (no container holds
\* callables), and the event-handler example is never executed (the loop
\* over the events never calls the bound handler).
C7_NothingStoredNoHandlerRun ==
    \A r \in Runs :
        /\ \A i \in 1..Len(mem[r]) : mem[r][i].el = <<>>
        /\ ~(Running(r) /\ Cur(r).id = "04g:647" /\ it[r] > 0)

\* C7: one sequential process with synchronous calls: a step belongs to one
\* run, and only to a run whose turn it is; a call is made by the statement
\* being executed and has returned when that step is over (the step moves to
\* the next statement or the next element); the sections that only print
\* code as text define nothing and call nothing; nothing is left when main
\* returns.  Callables are stored and called later within main: the vector
\* of std::function is filled, then called element by element, and the
\* simulated event processing calls a bound handler once per event.
C7_Synchronous ==
    [][\A r \in Runs :
        /\ Touched(r) => (Running(r) /\ \A q \in Runs \ {r} : ~Touched(q))
        /\ calls'[r] # calls[r] => (CallSite(Cur(r)) /\ (pc'[r] = pc[r] + 1 \/ it'[r] = it[r] + 1))
        /\ (Running(r) /\ Cur(r).ty = "text") => (Cur(r).k \in {"text", "open", "close"} /\ mem'[r] = mem[r] /\ calls'[r] = calls[r])
        /\ status'[r] = "exit0" => mem'[r] = <<>>]_vars

\* The three callables stored in the vector operations have all been called
\* by the loop after it, and the three events were processed before.
C7_Witness == prog = "04g" /\ \E r \in Runs : Running(r) /\ Cur(r).id = "04g:878" /\ it[r] = 3 /\ Len(Lookup(mem[r], "operations").el) = 3 /\ calls[r] > 3 /\ Line("04g:878", <<15>>) \in {out[r][i] : i \in 1..Len(out[r])}

\* C8 as stated: no run-time branching: no conditional is evaluated while a
\* program runs.
C8_NoRunTimeBranch == \A r \in Runs : taken[r] = {}

\* C8: the statements of a build run in their fixed order: the translation
\* unit never changes, every step stays at its statement or goes to the
\* next one, and it stays only to visit the next element of a loop.  The
\* conditionals evaluated at run time are those of the lambda bodies, at the
\* statement that calls them.
C8_LinearOrder ==
    [][\A r \in Runs :
        /\ unit'[r] = unit[r]
        /\ pc'[r] = pc[r] \/ pc'[r] = pc[r] + 1
        /\ (pc'[r] = pc[r] /\ it'[r] # it[r]) => (Cur(r).k = "loop" /\ it'[r] = it[r] + 1)
        /\ (pc'[r] # pc[r]) => it'[r] = 0
        /\ taken'[r] # taken[r] => (Running(r) /\ CallSite(Cur(r)))]_vars

\* A run that returned 0 after one conditional of a lambda body went both
\* ways on the elements of the vector.
C8_Witness == \E r \in Runs : status[r] = "exit0" /\ pc[r] = Len(unit[r]) + 1 /\ \E t \in taken[r] : t[2] /\ <<t[1], FALSE>> \in taken[r]

\* C9 as stated: the only mutable object is a vector of integers: an object
\* that a step changes after its definition is a vector of integers.
C9_OnlyIntVectorChanges ==
    [][\A r \in Runs : \A i \in 1..Len(mem[r]) :
        (i <= Len(mem'[r]) /\ mem'[r][i].nm = mem[r][i].nm /\ mem'[r][i] # mem[r][i]) => mem[r][i].kind = "vec"]_vars

\* C9: all state is local and scoped: every object belongs to a function
\* call and a block that are still open, a run that has not started or has
\* returned holds no object, so nothing outlives the call that made it or
\* passes from one run to the next.  The objects are not only vectors of
\* integers: closures, bind objects, std::function objects that are
\* reassigned, vectors of std::function and of strings, a Foo.
C9_LocalState ==
    \A r \in Runs :
        /\ \A i \in 1..Len(mem[r]) :
            /\ mem[r][i].fr \in 1..Len(frames[r])
            /\ mem[r][i].d <= frames[r][mem[r][i].fr].d
        /\ status[r] # "run" => (mem[r] = <<>> /\ frames[r] = <<>>)
        /\ ~Turn(r) => (mem[r] = <<>> /\ out[r] = <<>>)

\* The second run, after the first returned with nothing left, holds in an
\* open block a vector of std::function to which two callables were added.
C9_Witness == prog = "04g" /\ status[1] = "exit0" /\ mem[1] = <<>> /\ Has(mem[2], "operations") /\ Lookup(mem[2], "operations").kind = "fnvec" /\ Len(Lookup(mem[2], "operations").el) = 2 /\ Lookup(mem[2], "operations").d = 1

\* C10: a CANNOT block only writes literal text: each of its statements is
\* a text line or a brace, and a step that executes one defines no object,
\* calls nothing, evaluates no conditional and changes no variable; the
\* block closes on the objects it opened on.
C10_CannotOnlyText ==
    [][\A r \in Runs : (Running(r) /\ Cur(r).ty = "cannot") =>
        /\ Cur(r).k \in {"text", "open", "close"}
        /\ mem'[r] = mem[r] /\ calls'[r] = calls[r] /\ taken'[r] = taken[r] /\ it'[r] = it[r]
        /\ status'[r] = status[r]
        /\ Len(frames'[r]) = Len(frames[r])]_vars

\* A run of the comparison demo that holds objects has just left a CANNOT
\* block.
C10_Witness == prog = "02" /\ \E r \in Runs : Running(r) /\ pc[r] > 1 /\ unit[r][pc[r] - 1].ty = "cannot" /\ unit[r][pc[r] - 1].k = "close" /\ mem[r] # <<>> /\ Cur(r).ty # "cannot"

\* The sum of the squares of the positive elements, where it fits an int.
SumSqPos(data) == Accumulate(data, 0, LAMBDA s, x: IF x > 0 THEN s + x * x ELSE s)

\* C11: the four pipelines of the evolution demo are equivalent: on every
\* input vector the C++11 three-step result, the C++14 single accumulate,
\* the C++17 accumulate over process_value and the C++20 safe_processor
\* give the same result (the sum of the squares of the positive elements
\* where no square or partial sum overflows int, and undefined for all four
\* alike where one does), 165 on the vector of the program, and the same
\* as on the vector without its zero and negative elements.
C11_PipelinesAgree ==
    ret.f = "pipeline" =>
        /\ ret.v[1] = ret.v[2] /\ ret.v[2] = ret.v[3] /\ ret.v[3] = ret.v[4]
        /\ ret.v[1] = int(SumSqPos(arg)) \/ ret.v[1] = UB
        /\ SumSqPos(arg) <= INT_MAX => ret.v[1] = SumSqPos(arg)
        /\ arg = data_03 => ret.v = <<165, 165, 165, 165>>
        /\ ret.v = <<Pipeline_11(SelectSeq(arg, LAMBDA x: x > 0)), Pipeline_14(SelectSeq(arg, LAMBDA x: x > 0)), Pipeline_17(SelectSeq(arg, LAMBDA x: x > 0)), Pipeline_20(SelectSeq(arg, LAMBDA x: x > 0))>>

\* The four pipelines called on a vector with a negative element, a zero
\* and two positive ones.
C11_Witness == ret.f = "pipeline" /\ Len(arg) = 3 /\ arg[1] = -2 /\ arg[2] = 0 /\ arg[3] = 3 /\ ret.v = <<9, 9, 9, 9>>

\* C12: the same doubling in every standard: for every n the C++11
\* doubler, the C++14 generic doubler, the C++17 constexpr doubler and the
\* C++20 safe_doubler give 2*n (undefined for all alike where 2*n is not an
\* int), so each doubled row of an active section is the doubling of the
\* input, 2 4 6 8 10 for {1,2,3,4,5}; the sections that print a row are
\* those of the standards up to the build's; and doubler(5) computed by the
\* compiler is 10, the value the call gives at run time.
C12_SameDoubling ==
    ret.f = "doubler" =>
        /\ \A k \in 1..4 :
            /\ ret.v.rows[k] # <<>> <=> ret.v.cpp >= <<CPP11, CPP14, CPP17, CPP20>>[k]
            /\ ret.v.rows[k] # <<>> => ret.v.rows[k][1] = [i \in 1..Len(arg) |-> int(2 * arg[i])]
            /\ (ret.v.rows[k] # <<>> /\ arg = <<1, 2, 3, 4, 5>>) => ret.v.rows[k][1] = <<2, 4, 6, 8, 10>>
        /\ ret.v.cpp >= CPP17 => (ret.v.compile_time_result = <<10>> /\ ret.v.run_time_result = ret.v.compile_time_result)

\* A C++17 build doubles {1,2,3,4,5} in its three sections and not in the
\* C++20 one, and has computed doubler(5) = 10.
C12_Witness == ret.f = "doubler" /\ ret.v.cpp = CPP17 /\ arg = numbers_01 /\ ret.v.rows[1] = <<<<2, 4, 6, 8, 10>>>> /\ ret.v.rows[3] = <<<<2, 4, 6, 8, 10>>>> /\ ret.v.rows[4] = <<>> /\ ret.v.compile_time_result = <<10>>

\* C13: a bind object and the lambda shown as its equivalent behave
\* identically: called on the same operands, one after the other, they call
\* the same target with the same values in the same positions, once per
\* call and in the same order, so they write the same lines:
\* print_sum(2, x), multiply_and_print(2, 3, x), foo.bar(x).
C13_BindEqualsLambda ==
    ret.f = "bind" =>
        /\ ret.v.partial[1] = ret.v.partial[2]
        /\ ret.v.multiple[1] = ret.v.multiple[2]
        /\ ret.v.member[1] = ret.v.member[2]
        /\ ret.v.partial[1] = [i \in 1..Len(arg) |-> Line("04:29", <<2, arg[i], int(2 + arg[i])>>)]
        /\ ret.v.multiple[1] = [i \in 1..Len(arg) |-> Line("04:33", <<2, 3, arg[i], int(2 * 3 * arg[i])>>)]
        /\ ret.v.member[1] = [i \in 1..Len(arg) |-> Line("04:37", <<arg[i]>>)]

\* for_each over {1, 3, -2}: bar(1), bar(3), bar(-2) from the bind object
\* and from the lambda, and print_sum(2, 1), ... from both.
C13_Witness == ret.f = "bind" /\ arg = <<1, 3, -2>> /\ ret.v.member[2] = <<Line("04:37", <<1>>), Line("04:37", <<3>>), Line("04:37", <<-2>>)>> /\ ret.v.partial[1][2] = Line("04:29", <<2, 3, 5>>) /\ ret.v.multiple[2][3] = Line("04:33", <<2, 3, -2, -12>>)

\* C14: argument reordering: for all a and b, std::bind(print_sum, _2,
\* _1)(a, b) calls print_sum(b, a), as the lambda [](int x, int y) {
\* print_sum(y, x); } does: one line each, with the operands swapped with
\* respect to the direct call print_sum(a, b) and the same sum.
C14_Reordered ==
    ret.f = "reorder" =>
        /\ ret.v.reversed = <<Line("04:29", <<arg[2], arg[1], int(arg[2] + arg[1])>>)>>
        /\ ret.v.lambda_reversed = ret.v.reversed
        /\ ret.v.direct = <<Line("04:29", <<arg[1], arg[2], int(arg[1] + arg[2])>>)>>
        /\ ret.v.reversed[1].v[1] = ret.v.direct[1].v[2]
        /\ ret.v.reversed[1].v[2] = ret.v.direct[1].v[1]
        /\ ret.v.reversed[1].v[3] = ret.v.direct[1].v[3]

\* reversed(3, -2) and lambda_reversed(3, -2) have printed print_sum(-2, 3) = 1.
C14_Witness == ret.f = "reorder" /\ arg[1] = 3 /\ arg[2] = -2 /\ ret.v.reversed = <<Line("04:29", <<-2, 3, 1>>)>> /\ ret.v.lambda_reversed = <<Line("04:29", <<-2, 3, 1>>)>> /\ ret.v.direct = <<Line("04:29", <<3, -2, 1>>)>>

\* C15: std::function is a transparent container: called on any argument it
\* returns what the callable it holds returns when called directly; after
\* another callable is assigned to it, it returns what the new one returns,
\* whatever it held before; a vector of std::function calls its elements in
\* insertion order: x * 2, 10 + x, x * 3, which is 10, 15, 15 for 5.
C15_FunctionTransparent ==
    ret.f = "function" =>
        /\ \A k \in 1..4 : ret.v.stored[k] = ret.v.direct[k]
        /\ \A k, j \in 1..4 : ret.v.assigned[k][j] = ret.v.direct[j]
        /\ \A i \in 1..Len(arg) : ret.v.operations[i] = <<ret.v.direct[1][i], ret.v.direct[2][i], ret.v.direct[3][i]>>
        /\ \A i \in 1..Len(arg) : ret.v.operations[i] = <<int(arg[i] * 2), int(10 + arg[i]), int(arg[i] * 3)>>
        /\ \A i \in 1..Len(arg) : arg[i] = 5 => ret.v.operations[i] = <<10, 15, 15>>

\* The callables called on {1, 2, 3, 4, 5}: the vector gives 10, 15, 15 for
\* 5, and the std::function that held the lambda x * 2 and was then given
\* std::bind(add, 10, _1) gives 15, not 10.
C15_Witness == ret.f = "function" /\ arg = numbers_01 /\ ret.v.operations[5] = <<10, 15, 15>> /\ ret.v.assigned[1][2][5] = 15 /\ ret.v.direct[1][5] = 10 /\ ret.v.stored[4][5] = 15

\* C16: move capture transfers ownership: for as long as lambda_with_move
\* exists, the vector data it was built from is empty and the closure holds
\* the five elements, by value; the program prints 30 for
\* lambda_with_move(2) and 0 for data.size(); and no step, a call of the
\* lambda included, changes the closure or the emptied vector.
C16_MoveCapture ==
    /\ [](\A r \in Runs :
            /\ Has(mem[r], "lambda_with_move") =>
                /\ Lookup(mem[r], "data").v = <<>>
                /\ Lookup(mem[r], "lambda_with_move").v = <<1, 2, 3, 4, 5>>
                /\ Lookup(mem[r], "lambda_with_move").refs = <<>>
            /\ \A i \in 1..Len(out[r]) :
                /\ out[r][i].id \in {"04:190", "04g:725"} => out[r][i].v = <<30>>
                /\ out[r][i].id \in {"04:191", "04g:726"} => out[r][i].v = <<0>>)
    /\ [][\A r \in Runs : (Has(mem[r], "lambda_with_move") /\ Has(mem'[r], "lambda_with_move")) =>
            /\ Lookup(mem'[r], "lambda_with_move") = Lookup(mem[r], "lambda_with_move")
            /\ Lookup(mem'[r], "data") = Lookup(mem[r], "data")]_vars

\* The lambda has been called and the size of data printed, while both
\* objects still exist.
C16_Witness == prog = "04" /\ \E r \in Runs : Has(mem[r], "lambda_with_move") /\ Has(mem[r], "data") /\ Line("04:190", <<30>>) \in {out[r][i] : i \in 1..Len(out[r])} /\ Line("04:191", <<0>>) \in {out[r][i] : i \in 1..Len(out[r])} /\ calls[r] > 0

\* C17: perfect forwarding: the call perfect_forward_lambda(str1) and the
\* call with the temporary std::string("rvalue_string") each make one call,
\* in which Foo::process writes one line with the text given; neither
\* changes an object; str1 is "lvalue_string" for as long as it exists.
C17_Forwarded ==
    /\ [](\A r \in Runs : Has(mem[r], "str1") => Lookup(mem[r], "str1").v = <<Str("lvalue_string")>>)
    /\ [][\A r \in Runs : (Running(r) /\ Cur(r).id \in {"04g:753", "04g:756"}) =>
            /\ out'[r] = Append(out[r], Line("04g:508", <<Str(IF Cur(r).id = "04g:753" THEN "lvalue_string" ELSE "rvalue_string")>>))
            /\ calls'[r] = calls[r] + 1
            /\ mem'[r] = mem[r]
            /\ status'[r] = "run"]_vars

\* Both calls are made: the last two lines written are those of
\* Foo::process for the lvalue and for the temporary, and str1 still holds
\* its text.
C17_Witness == prog = "04g" /\ \E r \in Runs : Running(r) /\ Cur(r).id = "04g:758" /\ Lookup(mem[r], "str1").v = <<Str("lvalue_string")>> /\ SubSeq(out[r], Len(out[r]) - 2, Len(out[r])) = <<Line("04g:508", <<Str("lvalue_string")>>), Line("04g:755", <<>>), Line("04g:508", <<Str("rvalue_string")>>)>>

\* The statements of a program u that printed the lines of an output o.
PartOf(u, id) == IF \E n \in 1..Len(u) : u[n].id = id THEN u[CHOOSE n \in 1..Len(u) : u[n].id = id] ELSE Base
PartsOf(u, o) == [i \in 1..Len(o) |-> PartOf(u, o[i].id)] \o <<>>
Demonstrates(s) == s.ty \in {"can", "new", "cannot", "na"}

\* C18: in the 01, 02 and 03 demos the sections are printed in ascending
\* standard order. Whenever a step prints a line of a standard's section,
\* every statement of the sections of the lower standards has been
\* executed and no line of a section of a higher standard has been
\* printed; a line of the CAN do / NEW features part is not printed after
\* a line of the CANNOT part of the same standard, and where the standard
\* is available a CANNOT line has a CAN do / NEW line of that standard
\* before it; a summary line is printed only after every statement of the
\* demonstration sections has been executed, and no section line is
\* printed after a summary line.
InOrder(r) ==
    \A P \in {PartsOf(unit'[r], out'[r])} :
    /\ SubSeq(out'[r], 1, Len(out[r])) = out[r]
    /\ \A j \in (Len(out[r]) + 1)..Len(P) :
        /\ Demonstrates(P[j]) =>
            /\ \A n \in 1..Len(unit'[r]) : (Demonstrates(unit'[r][n]) /\ unit'[r][n].lvl < P[j].lvl) => n < pc'[r]
            /\ \A i \in 1..(j - 1) : Demonstrates(P[i]) => P[i].lvl <= P[j].lvl
            /\ \A i \in 1..(j - 1) : P[i].ty # "summary"
        /\ P[j].ty \in {"can", "new"} =>
            \A i \in 1..(j - 1) : ~(P[i].ty = "cannot" /\ P[i].lvl = P[j].lvl)
        /\ (P[j].ty = "cannot" /\ Active(P[j].lvl, std'[r])) =>
            \E i \in 1..(j - 1) : P[i].ty \in {"can", "new"} /\ P[i].lvl = P[j].lvl
        /\ P[j].ty = "summary" =>
            \A n \in 1..Len(unit'[r]) : Demonstrates(unit'[r][n]) => n < pc'[r]
C18_SectionOrder == [][\A r \in Runs : (prog \in {"01", "02", "03"} /\ out'[r] # out[r]) => InOrder(r)]_vars

\* The comparison demo built with C++17 has printed the C++14 features in
\* its first function, the C++14 CANNOT part and the C++17 features in its
\* second, the notice for C++20 in its third, and then the summary.
C18_Witness == prog = "02" /\ \E r \in Runs : std[r] = CPP17 /\ status[r] = "exit0" /\ {"02:2221", "02:2276", "02:2283", "02:2293", "02:2353", "02:2410", "02:2442"} \subseteq Shown(out[r])

\* The thresholds of the active blocks, and of the #else parts, that
\* printed a line of a sequence of parts.
ActiveBlocks(P) == {P[i].gate : i \in {n \in 1..Len(P) : P[n].gate > 0 /\ ~P[n].els}}
ElseParts(P) == {P[i].gate : i \in {n \in 1..Len(P) : P[n].gate > 0 /\ P[n].els}}

\* C19: the gates are nested. Every guard of every program has one of the
\* thresholds 201402 < 201703 < 202002 (the version check also 201103); in
\* every output that a step produces no line of an active block stands with a line of
\* the #else part of a guard of the same or a lower threshold, so a C++20
\* block being active implies that the C++17 and C++14 blocks are active
\* and a C++17 block being active that the C++14 block is; when a run of
\* 01, 02 or 03 has ended, an active C++20 block comes with lines of the
\* active C++17 and C++14 blocks and an active C++17 block with lines of
\* the C++14 block; the version check never has a YES line of a level with
\* a NO line of a lower level.
Nested(p, P, ended) ==
    /\ \A T \in ActiveBlocks(P) : \A E \in ElseParts(P) : E > T
    /\ (p \in {"01", "02", "03"} /\ ended) =>
        /\ CPP20 \in ActiveBlocks(P) => {CPP14, CPP17} \subseteq ActiveBlocks(P)
        /\ CPP17 \in ActiveBlocks(P) => CPP14 \in ActiveBlocks(P)
    /\ p = "00" => \A i, j \in 1..Len(P) : (P[i].ty = "yes" /\ P[j].ty = "no") => P[j].lvl > P[i].lvl
C19_NestedGates ==
    /\ [](CPP14 < CPP17 /\ CPP17 < CPP20)
    /\ [](\A r \in Runs : \A n \in 1..Len(unit[r]) : unit[r][n].gate \in {0, CPP14, CPP17, CPP20} \/ (prog = "00" /\ unit[r][n].gate = CPP11))
    /\ [][\A r \in Runs : (out'[r] # out[r] \/ status'[r] # status[r]) =>
            \A P \in {PartsOf(unit'[r], out'[r])} : Nested(prog', P, status'[r] = "exit0")]_vars

\* A C++17 build of the evolution demo has ended: it printed the C++14 and
\* C++17 blocks and the notice for C++20.
C19_Witness == prog = "03" /\ \E r \in Runs : status[r] = "exit0" /\ std[r] = CPP17 /\ {"03:77", "03:135", "03:225"} \subseteq Shown(out[r]) /\ ActiveBlocks(PartsOf(unit[r], out[r])) = {CPP14, CPP17} /\ ElseParts(PartsOf(unit[r], out[r])) = {CPP20}

\* The outcomes of the guards on a standard T in the demonstration
\* sections whose lines are in a sequence of parts: the feature section
\* and the 'features not available' notice.
Feature(P, T) == \E i \in 1..Len(P) : P[i].gate = T /\ ~P[i].els /\ P[i].ty \in {"can", "new", "cannot"}
Notice(P, T) == \E i \in 1..Len(P) : P[i].gate = T /\ P[i].els /\ P[i].ty = "na"
GatedStds(p) == IF p = "04" THEN {CPP14} ELSE {CPP14, CPP17, CPP20}

\* The guards of the demonstration functions of 02, 03 and 04: a line of
\* the #if part and the line of the #else part of each.
Guards(p) ==
    CASE p = "02" -> {<<"02:2221", "02:2260">>, <<"02:2276", "02:2279">>, <<"02:2293", "02:2330">>, <<"02:2346", "02:2349">>, <<"02:2366", "02:2410">>}
      [] p = "03" -> {<<"03:77", "03:129">>, <<"03:135", "03:182">>, <<"03:188", "03:225">>}
      [] p = "04" -> {<<"04:157", "04:196">>}
      [] OTHER -> {}

\* C20: in the demonstration functions of 02, 03 and 04 each gate has
\* exactly two outcomes. No output has, for a gated standard, lines of the
\* feature section and the 'features not available' notice of that
\* standard, and when the run has ended it has one of the two; the same
\* holds of each single guard of these functions.
TwoOutcomes(p, P, S, ended) ==
    /\ \A T \in GatedStds(p) :
        /\ ~(Feature(P, T) /\ Notice(P, T))
        /\ ended => (Feature(P, T) \/ Notice(P, T))
    /\ \A g \in Guards(p) :
        /\ ~(g[1] \in S /\ g[2] \in S)
        /\ ended => (g[1] \in S \/ g[2] \in S)
C20_TwoOutcomes ==
    [][\A r \in Runs : (out'[r] # out[r] \/ status'[r] # status[r]) =>
            \A P \in {PartsOf(unit'[r], out'[r])} : \A S \in {Shown(out'[r])} :
                prog' \in {"02", "03", "04"} => TwoOutcomes(prog', P, S, status'[r] = "exit0")]_vars

\* The comparison demo built with C++14 has ended: both guards on C++14
\* printed the features, both on C++17 and the one on C++20 the notice.
C20_Witness == prog = "02" /\ \E r \in Runs : std[r] = CPP14 /\ status[r] = "exit0" /\ Shown(out[r]) \cap {"02:2221", "02:2260", "02:2276", "02:2279", "02:2293", "02:2330", "02:2346", "02:2349", "02:2366", "02:2410"} = {"02:2221", "02:2276", "02:2330", "02:2349", "02:2410"}

\* C21 as stated: in the 01 comparison every section that is compiled out
\* leaves a notice: a run that has ended has, for each of C++14, C++17 and
\* C++20 that the build does not reach, a 'not available' line of that
\* standard.
C21_NoticeInPlace ==
    \A r \in Runs : (prog = "01" /\ status[r] = "exit0") =>
        \A P \in {PartsOf(unit[r], out[r])} : \A T \in {CPP14, CPP17, CPP20} :
            ~Active(T, std[r]) => \E i \in 1..Len(P) : P[i].ty = "na" /\ P[i].lvl = T

\* The summary block of a standard T is among the parts of an output.
Summary(P, T) == \E i \in 1..Len(P) : P[i].ty = "summary" /\ P[i].lvl = T

\* C22: in the 01 and 03 demos the evolution summary matches the compiled
\* standard. In every output that a step produces, the summary block of
\* C++14, C++17 or C++20 is there only if lines of that standard's active
\* demonstration section are; when the run has ended, the C++11 block is
\* there, and the block of each later standard is there if and only if
\* that standard's demonstration section was active, which is the case if
\* and only if the build reaches the standard.
SummaryMatches(P, cpp, ended) ==
    /\ \A T \in {CPP14, CPP17, CPP20} : Summary(P, T) => Feature(P, T)
    /\ ended =>
        /\ Summary(P, CPP11)
        /\ \A T \in {CPP14, CPP17, CPP20} : (Summary(P, T) <=> Feature(P, T)) /\ (Summary(P, T) <=> cpp >= T)
C22_SummaryMatches ==
    [][\A r \in Runs : (prog' \in {"01", "03"} /\ (out'[r] # out[r] \/ status'[r] # status[r])) =>
            \A P \in {PartsOf(unit'[r], out'[r])} : SummaryMatches(P, std'[r], status'[r] = "exit0")]_vars

\* A C++14 build of the evolution demo has ended with the C++11 and C++14
\* summary blocks and the C++14 section, and without those of C++17.
C22_Witness == prog = "03" /\ \E r \in Runs : std[r] = CPP14 /\ status[r] = "exit0" /\ Shown(out[r]) \cap {"03:77", "03:135", "03:236", "03:247", "03:257", "03:266"} = {"03:77", "03:236", "03:247"}

\* C23 as stated: in the 02 comparison the summary has the block of C++14,
\* C++17 or C++20 only if that standard's demonstration section was active
\* in the run: an output with the summary block of a standard has lines of
\* the standard's active section, and the run was built with a standard
\* that reaches it.
C23_SummaryOnlyActive ==
    \A r \in Runs : prog = "02" =>
        \A P \in {PartsOf(unit[r], out[r])} : \A T \in {CPP14, CPP17, CPP20} :
            Summary(P, T) => (Feature(P, T) /\ std[r] >= T)

\* The closure lambda3 of the C++14 section of 02 exists in a memory.
MoveCaptured(m) == Has(m, "lambda3") /\ Lookup(m, "lambda3").tgt = "02:2231"

\* C24: in the C++14 section of 02 the move capture consumes the copy and
\* not the input. The step that builds lambda3 from std::move(data_copy)
\* finds data_copy and data equal to {1,2,3,4,5}, empties data_copy and
\* leaves data as it was; for as long as lambda3 exists, data_copy is
\* empty, data is {1,2,3,4,5} and the closure holds the five elements by
\* value, and no step changes any of the three; the program prints 3 for
\* lambda3(3) and 15 for the accumulate over data.
C24_MoveConsumesCopy ==
    /\ [](\A r \in Runs : prog = "02" =>
            /\ MoveCaptured(mem[r]) =>
                /\ Lookup(mem[r], "data_copy").v = <<>>
                /\ Lookup(mem[r], "data").v = <<1, 2, 3, 4, 5>>
                /\ Lookup(mem[r], "lambda3").v = <<1, 2, 3, 4, 5>>
                /\ Lookup(mem[r], "lambda3").refs = <<>>
            /\ \A i \in 1..Len(out[r]) :
                /\ out[r][i].id = "02:2249" => out[r][i].v = <<3>>
                /\ out[r][i].id = "02:2255" => out[r][i].v = <<15>>)
    /\ [][\A r \in Runs : prog = "02" =>
            /\ (Running(r) /\ Cur(r).id = "02:2231") =>
                /\ Lookup(mem[r], "data_copy").v = <<1, 2, 3, 4, 5>>
                /\ Lookup(mem[r], "data").v = <<1, 2, 3, 4, 5>>
                /\ MoveCaptured(mem'[r])
                /\ Lookup(mem'[r], "data") = Lookup(mem[r], "data")
            /\ (MoveCaptured(mem[r]) /\ MoveCaptured(mem'[r])) =>
                /\ Lookup(mem'[r], "lambda3") = Lookup(mem[r], "lambda3")
                /\ Lookup(mem'[r], "data_copy") = Lookup(mem[r], "data_copy")
                /\ Lookup(mem'[r], "data") = Lookup(mem[r], "data")]_vars

\* lambda3(3) and the sum over data have been printed while lambda3, the
\* emptied copy and the input still exist.
C24_Witness == prog = "02" /\ \E r \in Runs : MoveCaptured(mem[r]) /\ Lookup(mem[r], "data_copy").v = <<>> /\ Lookup(mem[r], "data").v = <<1, 2, 3, 4, 5>> /\ Line("02:2249", <<3>>) \in {out[r][i] : i \in 1..Len(out[r])} /\ Line("02:2255", <<15>>) \in {out[r][i] : i \in 1..Len(out[r])}

\* The input vector of a demo: its name and the values it is built with.
InputName(p) == IF p = "01" THEN "numbers" ELSE "data"
InputValues(p) ==
    CASE p = "01" -> {numbers_01}
      [] p = "02" -> {data_02, <<1, 2, 3, 4, 5, 6>>}
      [] p = "03" -> {data_03}
      [] OTHER -> {}

\* C25: the input vector of the 01, 02 and 03 demos is read-only. For as
\* long as it exists it has the elements it was constructed with, and no
\* step of any section changes it: it keeps its elements, its length and
\* its place from the step that constructs it to the one that ends its
\* function.
C25_InputReadOnly ==
    /\ [](\A r \in Runs : \A i \in 1..Len(mem[r]) :
            (prog \in {"01", "02", "03"} /\ mem[r][i].nm = InputName(prog)) =>
                (mem[r][i].kind = "vec" /\ mem[r][i].v \in InputValues(prog)))
    /\ [][\A r \in Runs : \A i \in 1..Len(mem[r]) :
            (prog \in {"01", "02", "03"} /\ mem[r][i].nm = InputName(prog) /\ i <= Len(mem'[r])) =>
                mem'[r][i] = mem[r][i]]_vars

\* The C++20 section of the evolution demo has printed its result, after
\* the sections of C++11, C++14 and C++17, and data is as constructed.
C25_Witness == prog = "03" /\ \E r \in Runs : std[r] = CPP20 /\ {"03:51", "03:108", "03:165", "03:215"} \subseteq Shown(out[r]) /\ Has(mem[r], "data") /\ Lookup(mem[r], "data").v = data_03

\* C26: the three absolute-value lambdas of 03 agree: called with an int x
\* other than the minimum int, abs_value of C++11, abs_value2 and the
\* generic abs_value of C++14 return the same value, which is not negative
\* and is x or -x: 5 for -5, 7 for -7, 0 for 0.
C26_AbsAgree ==
    ret.f = "abs" => \A i \in 1..Len(ret.v) : \A c \in {ret.v[i]} :
        c.x # -INT_MAX - 1 =>
            /\ c.abs_value = c.abs_value2
            /\ c.abs_value2 = c.abs_value_14
            /\ c.abs_value \in 0..INT_MAX
            /\ c.abs_value \in {c.x, -c.x}
            /\ c.x = -5 => c.abs_value = 5
            /\ c.x = -7 => c.abs_value_14 = 7
            /\ c.x = 0 => c.abs_value2 = 0

\* The three lambdas were called with -5, -7, 0 and the ends of int: each
\* returned 7 for -7 and the maximum int for its negative.
C26_Witness == arg = abs_03 /\ ret.f = "abs" /\ ret.v[2] = [x |-> -7, abs_value |-> 7, abs_value2 |-> 7, abs_value_14 |-> 7] /\ ret.v[5].abs_value2 = INT_MAX

\* C27: get_stats counts each element at most once: for every input
\* vector the first count is the number of elements above zero, the second
\* the number below zero, and the two with the number of zeros make the
\* size of the vector; for the input of 03 they are 5 and 5; the first
\* count is the length of the vector that the C++11 section filters.
C27_GetStats ==
    ret.f = "get_stats" =>
        /\ ret.v.stats[1] = Cardinality({i \in 1..Len(arg) : arg[i] > 0})
        /\ ret.v.stats[2] = Cardinality({i \in 1..Len(arg) : arg[i] < 0})
        /\ ret.v.stats[1] + ret.v.stats[2] + Cardinality({i \in 1..Len(arg) : arg[i] = 0}) = Len(arg)
        /\ ret.v.stats[1] = Len(ret.v.positives)
        /\ arg = data_03 => ret.v.stats = <<5, 5>>

\* get_stats was called with a vector that has a zero, a positive and a
\* negative element, and counted one positive and one negative.
C27_Witness == ret.f = "get_stats" /\ arg = <<0, -2, 3>> /\ ret.v.stats = <<1, 1>> /\ ret.v.positives = <<3>>

\* The capture lambdas of the C++11 section of 02 that exist in a memory.
CaptureLambdas(m) == {n \in {"lambda1", "lambda2", "lambda3", "lambda4"} : Has(m, n) /\ Lookup(m, n).tgt = "02:2185"}

\* C28: in the C++11 section of 02 the captured multiplier is never
\* written while the lambdas exist: no step changes it and it is 2; the
\* lambdas lambda1 [multiplier] and lambda3 [=] hold the copy 2, lambda2
\* [&multiplier] and lambda4 [&] refer to multiplier; in every state in
\* which one of the four exists, a call of it with any x returns without
\* fault the value x * 2, the same for all four.
C28_CapturesAgree ==
    /\ [](\A r \in Runs : prog = "02" => \A n \in CaptureLambdas(mem[r]) :
            /\ Lookup(mem[r], "multiplier").v = <<2>>
            /\ n \in {"lambda1", "lambda3"} => (Lookup(mem[r], n).v = <<2>> /\ Lookup(mem[r], n).refs = <<>>)
            /\ n \in {"lambda2", "lambda4"} => (Lookup(mem[r], n).v = <<>> /\ Lookup(mem[r], n).refs = <<"multiplier">>)
            /\ \A x \in Operands : \A res \in {Invoke(mem[r], Lookup(mem[r], n), <<x>>)} :
                res.err = "" /\ Len(res.v) = 1 /\ int(res.v[1]) = int(x * 2))
    /\ [][\A r \in Runs : (prog = "02" /\ CaptureLambdas(mem[r]) # {} /\ CaptureLambdas(mem'[r]) # {}) =>
            Lookup(mem'[r], "multiplier") = Lookup(mem[r], "multiplier")]_vars

\* The four lambdas exist and lambda1(5) has been printed as 10.
C28_Witness == prog = "02" /\ \E r \in Runs : CaptureLambdas(mem[r]) = {"lambda1", "lambda2", "lambda3", "lambda4"} /\ Line("02:2199", <<10>>) \in {out[r][i] : i \in 1..Len(out[r])}

\* The names an object refers to: its reference captures and bound
\* addresses, and those of the callables it stores.
RefersTo(o) == {o.refs[k] : k \in 1..Len(o.refs)} \cup UNION {{o.el[j].refs[k] : k \in 1..Len(o.el[j].refs)} : j \in 1..Len(o.el)}
\* The callables that a statement invokes where it stands.
CalleeExprs(s) ==
    IF ~CallSite(s) THEN {}
    ELSE {s.e[i][2] : i \in {n \in 1..Len(s.e) : s.e[n][1] = "call"}}
         \cup {s.e[i][4] : i \in {n \in 1..Len(s.e) : s.e[n][1] = "acc"}}
         \cup (IF s.k \in {"loop", "algo"} /\ s.vk # "calls" THEN {s.e[2]} ELSE {})

\* C29: no by-reference capture or bound pointer dangles. Every object
\* that refers to another by reference or address was made after it, in
\* the same call and in the same block or one nested in it, so the object
\* referred to exists for as long as the callable does and no such
\* callable is held outside that block; every callable that the statement
\* to be executed invokes finds the objects it refers to; no run ends in
\* undefined behaviour.
C29_NoDangling ==
    \A r \in Runs :
        /\ status[r] # "ub"
        /\ \A i \in 1..Len(mem[r]) : \A n \in RefersTo(mem[r][i]) :
            \E j \in 1..(i - 1) :
                /\ mem[r][j].nm = n
                /\ mem[r][j].fr = mem[r][i].fr
                /\ mem[r][j].d <= mem[r][i].d
        /\ Running(r) => \A c \in CalleeExprs(Cur(r)) : ~Dangling(mem[r], Callee(mem[r], c))

\* perfect_forward_lambda, which captures foo by reference, has been
\* called while foo exists, and the next statement calls it again.
C29_Witness == prog = "04g" /\ \E r \in Runs : Running(r) /\ Cur(r).id = "04g:756" /\ Lookup(mem[r], "perfect_forward_lambda").refs = <<"foo">> /\ Has(mem[r], "foo") /\ Ref("perfect_forward_lambda") \in CalleeExprs(Cur(r)) /\ calls[r] > 0

\* What an operation of Operations computes.
OperationOf(operation, x) == CASE operation = "02:2197" -> x * 2 [] operation = "02:2273" -> x * x [] OTHER -> x + 1

\* C30: generic_container_op is an order-preserving map: for every input
\* container and every operation the result has the size of the input and
\* its i-th element is the operation applied to the i-th element of the
\* input; the call leaves the input as it was; called as in the demo, with
\* the squaring lambda, it returns the squares in order, six of them for
\* data = {1,2,3,4,5,6}.
C30_OrderPreservingMap ==
    /\ [](ret.f = "generic_container_op" =>
            /\ Len(ret.v.result) = Len(arg)
            /\ \A i \in 1..Len(arg) : ret.v.result[i] = int(OperationOf(ret.v.operation, arg[i]))
            /\ Len(ret.v.squared_data) = Len(arg)
            /\ \A i \in 1..Len(arg) : ret.v.squared_data[i] = arg[i] * arg[i]
            /\ arg = data_02c => (Len(ret.v.squared_data) = 6 /\ ret.v.squared_data = <<1, 4, 9, 16, 25, 36>>))
    /\ [][ret'.f = "generic_container_op" => arg' = arg]_vars

\* generic_container_op was called with data = {1,...,6} and x + 1.
C30_Witness == ret.f = "generic_container_op" /\ arg = data_02c /\ ret.v.operation = "02:2378" /\ ret.v.result = <<2, 3, 4, 5, 6, 7>> /\ Len(ret.v.squared_data) = 6

====
